---- MODULE Spec2Model ----
(***************************************************************************)
(* The task DAG engine (Task.hpp), the worker pool (ThreadPool.hpp) and    *)
(* the coroutine awaiter (TaskAwaiter.hpp), the cancellation token         *)
(* (CancellationToken.hpp), the deadline guard (TimeoutGuard.hpp) and the  *)
(* task helpers (TaskExtensions.hpp) as an interleaving of threads.        *)
(* Every thread owns a stack of frames; the top frame is the next shared   *)
(* memory access that thread performs.  A frame is <<pc, task, a, i, n>>.  *)
(***************************************************************************)
EXTENDS Integers, Sequences, FiniteSets, TLC

VARIABLES
  predecessor_count_,        \* TaskBase::predecessor_count_
  is_scheduled_,             \* TaskBase::is_scheduled_
  is_done_,                  \* TaskBase::is_done_
  exception_,                \* TaskBase::exception_
  result_,                   \* Task<T>::result_
  successors_unconditional_, \* TaskBase::successors_unconditional_
  successors_conditional_,   \* TaskBase::successors_conditional_
  wait_mutex_,               \* TaskBase::wait_mutex_ (its holder)
  tasks,                     \* ThreadPool::tasks, the FIFO job queue
  stack,                     \* per thread: the frames still to run
  live,                      \* the Task objects that have been constructed
  calls,                     \* number of user calls issued so far
  invoked,                   \* history: times callback_ was entered
  executes,                  \* history: times Execute was entered
  done_stores,               \* history: times NotifyFinished stored is_done_
  notify_alls,               \* history: times wait_cv_.notify_all ran
  notified,                  \* history: <<pred, succ>> OnPredecessorFinished calls
  recorded,                  \* history: exceptions seen inside exception_mutex_
  got,                       \* history: what GetResult gave the caller
  escaped,                   \* history: workers killed by an escaped exception
  awaited,                   \* TaskAwaiter::task of the one co_await, once begun
  resumed,                   \* history: times the awaiting coroutine was resumed
  crashed,                   \* the process died of a racing vector access
  awaiter_void,              \* the co_await uses TaskAwaiter<void>
  callback_,                 \* TaskBase::callback_: which callable the task holds
  worked,                    \* history: per task, token state seen when work() began
  is_cancelled_,             \* CancellationToken::is_cancelled_
  callbacks_mutex_,          \* CancellationToken::callbacks_mutex_ (its holder)
  callbacks_,                \* CancellationToken::callbacks_
  registered,                \* history: callbacks whose RegisterCallback returned
  ran,                       \* history: per callback, the calls that ran it
  latches,                   \* history: Cancel calls that took the latching branch
  stop_timer_,               \* TimeoutGuard::stop_timer_
  expired,                   \* steady_clock::now() >= deadline
  joined,                    \* history: how ~TimeoutGuard returned
  bus,                       \* the EventBus: its fields, by name
  scope,                     \* the EventScope: its fields, by name
  seen                       \* history: what the bus's callers observed

vars == <<predecessor_count_, is_scheduled_, is_done_, exception_, result_,
          successors_unconditional_, successors_conditional_,
          wait_mutex_, tasks, stack, live, calls, invoked, executes,
          done_stores, notify_alls, notified, recorded, got, escaped,
          awaited, resumed, crashed, awaiter_void, callback_, worked,
          is_cancelled_, callbacks_mutex_, callbacks_, registered, ran,
          latches, stop_timer_, expired, joined, bus, scope, seen>>

\* The history variables only record what happened; no step reads them.
history == <<invoked, executes, done_stores, notify_alls, notified, recorded,
             got, escaped, resumed>>

\* The cancellation token.
tokenState == <<is_cancelled_, callbacks_mutex_, callbacks_, registered, ran,
                latches>>

\* The deadline guard and its clock.
guardState == <<stop_timer_, expired, joined>>

\* The callables the helpers wrap around the user's work.
wrappers == <<callback_, worked>>

\* The event bus, the one scope on it, and what was observed of them.
busState == <<bus, scope, seen>>

ext == <<awaiter_void, wrappers, tokenState, guardState, busState>>

\* What the callers of the engine own.
callers == <<live, calls, awaited, crashed, ext>>

taskState == <<predecessor_count_, is_scheduled_, is_done_, exception_, result_,
               successors_unconditional_, successors_conditional_>>

----------------------------------------------------------------------------
(* Bounds and universes *)

MaxCalls == 2

Tasks == {"A", "B", "C", "D"}

\* The resumption task await_suspend creates.
Resumption == "R"

\* The aggregate task WhenAll creates.
Aggregate == "G"

AllTasks == Tasks \cup {Resumption, Aggregate}

NoTask == "nil"

Workers == {"w1", "w2"}

Users == {"u1", "u2"}

\* The timer thread of the one TimeoutGuard.
Timer == "tm"

Threads == Workers \cup Users \cup {Timer}

NoExc == "none"

NoVal == "empty"

Free == "free"

\* TaskCancelledException
Cancelled == "cancelled"

\* The callbacks handed to RegisterCallback.
Callbacks == {"f1", "f2"}

\* The callables a task may hold: the user's own work, or a helper's lambda.
Work == "work"

\* WithCancellation: token->ThrowIfCancelled(); return work();
WithCancellationFn == "WithCancellation"

\* WithTimeout: TimeoutGuard guard(token, timeout); token->ThrowIfCancelled();
\* return work();
WithTimeoutFn == "WithTimeout"

\* WhenAll: []() {}
NoOp == "noop"

\* WhenAllWithCancellation: if (token && token->IsCancelled()) throw ...
ThrowIfTokenCancelled == "throw_if_token_cancelled"

\* WhenAllWithCancellation on a cancelled token: throw TaskCancelledException()
ThrowCancelled == "throw_cancelled"

Unread == <<"unread", "unread">>

\* What a callable may do when it is invoked.
Outcomes == {"returns", "throws"}

\* The exception object a throwing callable of task t raises.
Raised(t) == t

Fr(pc, t, a, i, n) == <<pc, t, a, i, n>>

F0(pc, t) == Fr(pc, t, NoExc, 0, 0)

Top(th) == Head(stack[th])

Pc(th) == Top(th)[1]

Tk(th) == Top(th)[2]

Busy(th) == stack[th] # <<>>

\* A dead process takes no further step.
At(th, pc) == ~crashed /\ Busy(th) /\ Pc(th) = pc

Idle(th) == ~crashed /\ ~Busy(th)

\* Replace the top frame of th by the frames fs (the continuation of the call).
Continue(th, fs) == stack' = [stack EXCEPT ![th] = fs \o Tail(stack[th])]

----------------------------------------------------------------------------
(* Wiring: Task::Then / Task::Finally, applied before anything is scheduled *)

Then(g, a, b) ==
  [g EXCEPT !.cond[a] = Append(@, b), !.count[b] = @ + 1]

Finally(g, a, b) ==
  [g EXCEPT !.unc[a] = Append(@, b), !.count[b] = @ + 1]

Unwired ==
  [unc |-> [t \in AllTasks |-> <<>>], cond |-> [t \in AllTasks |-> <<>>],
   count |-> [t \in AllTasks |-> 0]]

RECURSIVE Wire(_)
Wire(ws) ==
  IF ws = <<>> THEN Unwired
  ELSE LET w == ws[Len(ws)]
           g == Wire(SubSeq(ws, 1, Len(ws) - 1))
       IN IF w[1] = "Then" THEN Then(g, w[2], w[3]) ELSE Finally(g, w[2], w[3])

Nodes(ws) == UNION {{ws[k][2], ws[k][3]} : k \in DOMAIN ws}

\* The graphs of the demos and of the specification's scenarios.
Diamond == <<<<"Then", "A", "B">>, <<"Then", "A", "C">>,
             <<"Finally", "B", "D">>, <<"Finally", "C", "D">>>>

MultiplePredecessors == <<<<"Then", "A", "C">>, <<"Then", "B", "C">>>>

MixedSemantics == <<<<"Finally", "A", "B">>, <<"Then", "A", "C">>>>

FinallyJoin == <<<<"Finally", "A", "C">>, <<"Finally", "B", "C">>>>

ThenChain == <<<<"Then", "A", "B">>, <<"Then", "B", "C">>>>

MixedJoin == <<<<"Then", "A", "C">>, <<"Finally", "B", "C">>>>

FinallyAfterThen == <<<<"Then", "A", "B">>, <<"Finally", "B", "C">>>>

Graphs == {Diamond, MultiplePredecessors, MixedSemantics, FinallyJoin,
           ThenChain, MixedJoin, FinallyAfterThen}

Seq2Set(s) == {s[k] : k \in DOMAIN s}

\* The predecessors of b along conditional / unconditional edges.
CondPreds(b) == {a \in AllTasks : b \in Seq2Set(successors_conditional_[a])}

UncPreds(b) == {a \in AllTasks : b \in Seq2Set(successors_unconditional_[a])}

Preds(b) == CondPreds(b) \cup UncPreds(b)

----------------------------------------------------------------------------
(* The decisions the code takes, one operator per condition or body *)

\* Mutant: TrySchedule goes on whatever the predecessor count is.
AlwaysReady(t) == TRUE

\* TrySchedule: predecessor_count_.load() == 0
TryScheduleReady(t) == predecessor_count_[t] = 0

\* Mutant: a plain store instead of exchange, every caller runs Execute.
ExchangeAlwaysWon(old) == TRUE

\* TrySchedule: !is_scheduled_.exchange(true), given the value before the exchange
ExchangeWon(old) == ~old

\* Mutant: Execute without the short-circuit test.
NeverShortCircuit(t) == FALSE

\* Execute: if (exception_)
ShortCircuit(t) == exception_[t] # NoExc

\* Mutant: successors are notified before is_done_ is stored.
SuccessorsBeforeDone(t) == <<F0("for_unconditional", t), F0("NotifyFinished", t)>>

\* NotifyFinished(); NotifySuccessors(pool);
CompletionBody(t) == <<F0("NotifyFinished", t), F0("for_unconditional", t)>>

\* The job Execute submits: try { callback_() } catch (...) {...}; then completion
JobBody(t) == <<F0("callback", t)>> \o CompletionBody(t)

\* Mutant: the exception is forwarded along unconditional edges too.
ForwardAlways(t, kind) == exception_[t]

\* Mutant: no edge forwards the exception.
ForwardNever(t, kind) == NoExc

\* NotifySuccessors: the exception handed to a successor of t along an edge
ForwardedException(t, kind) ==
  IF kind = "conditional" THEN exception_[t] ELSE NoExc

\* OnPredecessorFinished: if (predecessor_exception && !exception_)
ShouldRecord(n, e) == e # NoExc /\ exception_[n] = NoExc

\* Mutant: last write wins.
RecordLastException(cur, e) == e

\* OnPredecessorFinished, under exception_mutex_: if (!exception_) exception_ = e
RecordException(cur, e) == IF cur = NoExc THEN e ELSE cur

\* Mutant: the comparison is made with the value after the decrement.
LastPredecessorOffByOne(old) == old = 0

\* OnPredecessorFinished: predecessor_count_.fetch_sub(1) == 1
LastPredecessor(old) == old = 1

\* Mutant: the job runs the callable outside any handler.
CatchesNothing(e) == FALSE

\* The job's catch (...) takes every exception the callable raises
Catches(e) == TRUE

\* Task<T>::GetResult: rethrow exception_ if set, otherwise hand out *result_
GetResult(t) ==
  IF exception_[t] # NoExc THEN <<"throws", exception_[t]>>
  ELSE <<"returns", result_[t]>>

\* Mutant: await_suspend always takes the already-done branch.
AwaitAlwaysDone(t) == TRUE

\* await_suspend: if (task->IsDone())
AwaitSuspendDone(t) == is_done_[t]

\* wait_cv_.wait(lock, pred): the predicate
WaitPredicate(t) == is_done_[t]

----------------------------------------------------------------------------
(* Steps of the engine; th is the thread that takes the step *)

TryScheduleLoad(th) ==
  /\ At(th, "TrySchedule")
  /\ IF TryScheduleReady(Tk(th))
       THEN Continue(th, <<F0("exchange", Tk(th))>>)
       ELSE Continue(th, <<>>)
  /\ UNCHANGED <<taskState, wait_mutex_, tasks, callers, history>>

TryScheduleExchange(th) ==
  /\ At(th, "exchange")
  /\ LET t == Tk(th) IN
       /\ is_scheduled_' = [is_scheduled_ EXCEPT ![t] = TRUE]
       /\ IF ExchangeWon(is_scheduled_[t])
            THEN /\ Continue(th, <<F0("Execute", t)>>)
                 /\ executes' = [executes EXCEPT ![t] = @ + 1]
            ELSE /\ Continue(th, <<>>)
                 /\ UNCHANGED executes
  /\ UNCHANGED <<predecessor_count_, is_done_, exception_, result_,
                 successors_unconditional_, successors_conditional_,
                 wait_mutex_, tasks, callers, invoked, done_stores,
                 notify_alls, notified, recorded, got, escaped, resumed>>

Execute(th) ==
  /\ At(th, "Execute")
  /\ LET t == Tk(th) IN
       IF ShortCircuit(t)
         THEN /\ Continue(th, CompletionBody(t))
              /\ UNCHANGED tasks
         ELSE /\ tasks' = Append(tasks, t)
              /\ Continue(th, <<>>)
  /\ UNCHANGED <<taskState, wait_mutex_, callers, history>>

NotifyFinished(th) ==
  /\ At(th, "NotifyFinished")
  /\ is_done_' = [is_done_ EXCEPT ![Tk(th)] = TRUE]
  /\ done_stores' = [done_stores EXCEPT ![Tk(th)] = @ + 1]
  /\ Continue(th, <<F0("notify_all", Tk(th))>>)
  /\ UNCHANGED <<predecessor_count_, is_scheduled_, exception_, result_,
                 successors_unconditional_, successors_conditional_,
                 wait_mutex_, tasks, callers, invoked, executes, notify_alls,
                 notified, recorded, got, escaped, resumed>>

\* wait_cv_.notify_all(): every thread blocked on the task's condition variable
\* becomes runnable and will re-acquire wait_mutex_ and re-evaluate the predicate.
NotifyAll(th) ==
  /\ At(th, "notify_all")
  /\ LET t == Tk(th) IN
       /\ stack' = [x \in Threads |->
            IF x = th THEN Tail(stack[th])
            ELSE IF At(x, "cv_blocked") /\ Tk(x) = t
                   THEN <<F0("Wait", t)>> \o Tail(stack[x])
                   ELSE stack[x]]
       /\ notify_alls' = [notify_alls EXCEPT ![t] = @ + 1]
  /\ UNCHANGED <<taskState, wait_mutex_, tasks, callers, invoked, executes,
                 done_stores, notified, recorded, got, escaped, resumed>>

\* One pass of a range-for over a successor vector: begin()/end() are taken when
\* the loop starts (i = 0); each pass calls OnPredecessorFinished on one element.
LoopStep(th, list, kind, after) ==
  LET f == Top(th)
      t == f[2]
      i == f[4]
      n == IF i = 0 THEN Len(list) ELSE f[5]
  IN IF i < n
       THEN /\ Continue(th, <<Fr("OnPredecessorFinished", list[i + 1],
                                 ForwardedException(t, kind), 0, 0),
                              Fr(f[1], t, NoExc, i + 1, n)>>)
            /\ notified' = notified \cup {<<t, list[i + 1]>>}
       ELSE /\ Continue(th, after)
            /\ UNCHANGED notified

ForUnconditional(th) ==
  /\ At(th, "for_unconditional")
  /\ LoopStep(th, successors_unconditional_[Tk(th)], "unconditional",
              <<F0("for_conditional", Tk(th))>>)
  /\ UNCHANGED <<taskState, wait_mutex_, tasks, callers, invoked, executes,
                 done_stores, notify_alls, recorded, got, escaped, resumed>>

ForConditional(th) ==
  /\ At(th, "for_conditional")
  /\ LoopStep(th, successors_conditional_[Tk(th)], "conditional", <<>>)
  /\ UNCHANGED <<taskState, wait_mutex_, tasks, callers, invoked, executes,
                 done_stores, notify_alls, recorded, got, escaped, resumed>>

OnPredecessorFinished(th) ==
  /\ At(th, "OnPredecessorFinished")
  /\ LET n == Tk(th)
         e == Top(th)[3]
     IN IF ShouldRecord(n, e)
          THEN Continue(th, <<Fr("lock_exception", n, e, 0, 0)>>)
          ELSE Continue(th, <<F0("fetch_sub", n)>>)
  /\ UNCHANGED <<taskState, wait_mutex_, tasks, callers, history>>

\* The critical section of exception_mutex_, taken as one step.
LockException(th) ==
  /\ At(th, "lock_exception")
  /\ LET n == Tk(th)
         e == Top(th)[3]
     IN /\ exception_' = [exception_ EXCEPT ![n] = RecordException(@, e)]
        /\ recorded' = [recorded EXCEPT ![n] = Append(@, e)]
        /\ Continue(th, <<F0("fetch_sub", n)>>)
  /\ UNCHANGED <<predecessor_count_, is_scheduled_, is_done_, result_,
                 successors_unconditional_, successors_conditional_,
                 wait_mutex_, tasks, callers, invoked, executes, done_stores,
                 notify_alls, notified, got, escaped, resumed>>

FetchSub(th) ==
  /\ At(th, "fetch_sub")
  /\ LET n == Tk(th) IN
       /\ predecessor_count_' = [predecessor_count_ EXCEPT ![n] = @ - 1]
       /\ IF LastPredecessor(predecessor_count_[n])
            THEN Continue(th, <<F0("TrySchedule", n)>>)
            ELSE Continue(th, <<>>)
  /\ UNCHANGED <<is_scheduled_, is_done_, exception_, result_,
                 successors_unconditional_, successors_conditional_,
                 wait_mutex_, tasks, callers, history>>

\* Mutant: the token is never seen cancelled.
NeverCancelled(c) == FALSE

\* CancellationToken::IsCancelled: is_cancelled_.load(), c being the flag.
IsCancelled(c) == c

\* CancellationToken::ThrowIfCancelled throws when the flag c is set.
ThrowIfCancelled(c) == c

\* What the user's work may do for task t, begun with the token flag at c.
WorkRuns(t, c) ==
  {<<"returns", NoExc, <<c>>>>, <<"throws", Raised(t), <<c>>>>}

\* The ways the callable of t can end when it is invoked with the token flag at
\* c: <<outcome, exception thrown, what to add to worked[t]>>.
Callable(t, c) ==
  LET k == callback_[t] IN
    IF k = Work
      THEN {<<"returns", NoExc, <<>>>>, <<"throws", Raised(t), <<>>>>}
    ELSE IF k = WithCancellationFn
      THEN IF ThrowIfCancelled(c) THEN {<<"throws", Cancelled, <<>>>>}
           ELSE WorkRuns(t, c)
    ELSE IF k = ThrowIfTokenCancelled
      THEN IF IsCancelled(c) THEN {<<"throws", Cancelled, <<>>>>}
           ELSE {<<"returns", NoExc, <<>>>>}
    ELSE IF k = ThrowCancelled
      THEN {<<"throws", Cancelled, <<>>>>}
    ELSE {<<"returns", NoExc, <<>>>>}

\* The job's try block: callback_() returns (Task<T> stores result_) or throws;
\* catch (...) stores the exception in exception_.  An exception no handler takes
\* leaves the thread function and the worker is gone.
InvokeCallback(th) ==
  /\ At(th, "callback")
  /\ Tk(th) # Resumption
  /\ callback_[Tk(th)] # WithTimeoutFn
  /\ \E o \in Callable(Tk(th), is_cancelled_) : LET t == Tk(th) IN
       /\ invoked' = [invoked EXCEPT ![t] = @ + 1]
       /\ worked' = [worked EXCEPT ![t] = @ \o o[3]]
       /\ IF o[1] = "returns"
            THEN /\ result_' = [result_ EXCEPT ![t] = "value"]
                 /\ Continue(th, <<>>)
                 /\ UNCHANGED <<exception_, escaped>>
            ELSE IF Catches(o[2])
              THEN /\ exception_' = [exception_ EXCEPT ![t] = o[2]]
                   /\ Continue(th, <<>>)
                   /\ UNCHANGED <<result_, escaped>>
              ELSE /\ escaped' = escaped \cup {th}
                   /\ stack' = [stack EXCEPT ![th] = <<>>]
                   /\ UNCHANGED <<result_, exception_>>
  /\ UNCHANGED <<predecessor_count_, is_scheduled_, is_done_,
                 successors_unconditional_, successors_conditional_,
                 wait_mutex_, tasks, live, calls, awaited, crashed,
                 awaiter_void, callback_, tokenState, guardState, busState, executes,
                 done_stores, notify_alls, notified, recorded, got, resumed>>

\* Worker loop: pop the front job of the queue and run it.
WorkerTake(w) ==
  /\ w \in Workers \ escaped
  /\ Idle(w)
  /\ tasks # <<>>
  /\ Head(tasks) \in AllTasks
  /\ stack' = [stack EXCEPT ![w] = JobBody(Head(tasks))]
  /\ tasks' = Tail(tasks)
  /\ UNCHANGED <<taskState, wait_mutex_, callers, history>>

\* Task<T>::GetResult as the caller's next statement.
CallGetResult(th) ==
  /\ At(th, "GetResult")
  /\ got' = [got EXCEPT ![Tk(th)] = GetResult(Tk(th))]
  /\ Continue(th, <<>>)
  /\ UNCHANGED <<taskState, wait_mutex_, tasks, callers, invoked, executes,
                 done_stores, notify_alls, notified, recorded, escaped, resumed>>

----------------------------------------------------------------------------
(* TaskBase::Wait *)

\* unique_lock(wait_mutex_), then the first evaluation of the predicate (and, after
\* a wake-up, the re-acquisition and re-evaluation).
Wait(th) ==
  /\ At(th, "Wait")
  /\ wait_mutex_[Tk(th)] = Free
  /\ IF WaitPredicate(Tk(th))
       THEN /\ Continue(th, <<>>)
            /\ UNCHANGED wait_mutex_
       ELSE /\ Continue(th, <<F0("cv_wait", Tk(th))>>)
            /\ wait_mutex_' = [wait_mutex_ EXCEPT ![Tk(th)] = th]
  /\ UNCHANGED <<taskState, tasks, callers, history>>

\* condition_variable::wait(lock): release the mutex and block, atomically.
CvWait(th) ==
  /\ At(th, "cv_wait")
  /\ wait_mutex_' = [wait_mutex_ EXCEPT ![Tk(th)] = Free]
  /\ Continue(th, <<F0("cv_blocked", Tk(th))>>)
  /\ UNCHANGED <<taskState, tasks, callers, history>>

\* A condition variable may wake a waiter without a notification.
SpuriousWakeup(th) ==
  /\ At(th, "cv_blocked")
  /\ Continue(th, <<F0("Wait", Tk(th))>>)
  /\ UNCHANGED <<taskState, wait_mutex_, tasks, callers, history>>

----------------------------------------------------------------------------
(* The callers of the engine *)

UserTrySchedule(u, t) ==
  /\ u \in Users /\ Idle(u) /\ t \in live
  /\ calls < MaxCalls
  /\ calls' = calls + 1
  /\ stack' = [stack EXCEPT ![u] = <<F0("TrySchedule", t)>>]
  /\ UNCHANGED <<taskState, wait_mutex_, tasks, live, awaited, crashed, ext,
                 history>>

\* t->Wait(); t->GetResult(); as the demos read a task's outcome.
UserWait(u, t) ==
  /\ u \in Users /\ Idle(u) /\ t \in live
  /\ calls < MaxCalls
  /\ calls' = calls + 1
  /\ stack' = [stack EXCEPT ![u] = <<F0("Wait", t), F0("GetResult", t)>>]
  /\ UNCHANGED <<taskState, wait_mutex_, tasks, live, awaited, crashed, ext,
                 history>>

\* GetResult on a task the caller has seen done through IsDone().
UserGetResult(u, t) ==
  /\ u \in Users /\ Idle(u) /\ t \in live
  /\ is_done_[t]
  /\ calls < MaxCalls
  /\ calls' = calls + 1
  /\ stack' = [stack EXCEPT ![u] = <<F0("GetResult", t)>>]
  /\ UNCHANGED <<taskState, wait_mutex_, tasks, live, awaited, crashed, ext,
                 history>>

----------------------------------------------------------------------------
(* The task graph engine driven by user threads *)

\* The bus after the subscriptions pre, each <<closure, event, through>>, were
\* made one after the other: ids 0, 1, ... in that order.
Registry(pre) ==
  [e \in {pre[k][2] : k \in DOMAIN pre} |->
     [id \in {k - 1 : k \in {j \in DOMAIN pre : pre[j][2] = e}} |-> pre[id + 1][1]]]

\* The handles those subscriptions returned, by closure.
HandlesOf(pre) ==
  [c \in {pre[k][1] : k \in DOMAIN pre} |->
     LET k == CHOOSE j \in DOMAIN pre : pre[j][1] = c IN <<pre[k][2], k - 1>>]

\* The handles the scope keeps, in registration order.
ScopeHandles(pre) ==
  LET through == SelectSeq(pre, LAMBDA x : x[3] # "bus")
  IN [k \in DOMAIN through |-> HandlesOf(pre)[through[k][1]]]

\* The bus, with the subscriptions pre made, and the scope on it.
NewBus(pre) ==
  /\ bus = [next_handler_id_ |-> Len(pre), handlers_mutex_ |-> Free,
            event_handlers_ |-> Registry(pre), owned |-> TRUE]
  /\ scope = [handles_mutex_ |-> Free, handles_ |-> ScopeHandles(pre),
              life |-> "alive"]
  /\ seen = [handles |-> HandlesOf(pre),
             through |-> {pre[k][1] : k \in {j \in DOMAIN pre : pre[j][3] # "bus"}},
             ids |-> [k \in DOMAIN pre |-> k - 1],
             unsubscribing |-> {}, unsubscribed |-> {}, unsubscribed_ |-> {},
             emits |-> <<>>, jobs |-> <<>>, late |-> {}, stale |-> {},
             dropped |-> {},
             overlapped |-> FALSE, published |-> <<>>,
             within |-> [c \in {} |-> 0]]

\* The tasks in nodes, wired by ws and holding the callables cb; a fresh token;
\* a bus on which the subscriptions pre were made.
InitBus(ws, nodes, cb, pre) ==
  LET g == Wire(ws) IN
    /\ NewBus(pre)
    /\ predecessor_count_ = g.count
    /\ successors_unconditional_ = g.unc
    /\ successors_conditional_ = g.cond
    /\ live = nodes
    /\ callback_ = cb
    /\ worked = [t \in AllTasks |-> <<>>]
    /\ awaiter_void = FALSE
    /\ is_cancelled_ = FALSE
    /\ callbacks_mutex_ = Free
    /\ callbacks_ = <<>>
    /\ registered = {}
    /\ ran = [f \in Callbacks |-> <<>>]
    /\ latches = 0
    /\ stop_timer_ = FALSE
    /\ expired = FALSE
    /\ joined = "no"
    /\ is_scheduled_ = [t \in AllTasks |-> FALSE]
    /\ is_done_ = [t \in AllTasks |-> FALSE]
    /\ exception_ = [t \in AllTasks |-> NoExc]
    /\ result_ = [t \in AllTasks |-> NoVal]
    /\ wait_mutex_ = [t \in AllTasks |-> Free]
    /\ tasks = <<>>
    /\ stack = [th \in Threads |-> <<>>]
    /\ calls = 0
    /\ invoked = [t \in AllTasks |-> 0]
    /\ executes = [t \in AllTasks |-> 0]
    /\ done_stores = [t \in AllTasks |-> 0]
    /\ notify_alls = [t \in AllTasks |-> 0]
    /\ notified = {}
    /\ recorded = [t \in AllTasks |-> <<>>]
    /\ got = [t \in AllTasks |-> Unread]
    /\ escaped = {}
    /\ awaited = NoTask
    /\ resumed = 0
    /\ crashed = FALSE

\* The same with nothing subscribed on the bus.
InitTasks(ws, nodes, cb) == InitBus(ws, nodes, cb, <<>>)

InitGraph(ws) == InitTasks(ws, Nodes(ws), [t \in AllTasks |-> Work])

Init == \E ws \in Graphs : InitGraph(ws)

EngineStep(th) ==
  \/ TryScheduleLoad(th)
  \/ TryScheduleExchange(th)
  \/ Execute(th)
  \/ NotifyFinished(th)
  \/ NotifyAll(th)
  \/ ForUnconditional(th)
  \/ ForConditional(th)
  \/ OnPredecessorFinished(th)
  \/ LockException(th)
  \/ FetchSub(th)
  \/ InvokeCallback(th)

Next ==
  \/ \E th \in Threads : EngineStep(th)
  \/ \E th \in Threads : CallGetResult(th)
  \/ \E w \in Workers : WorkerTake(w)
  \/ \E u \in Users, t \in Tasks : UserTrySchedule(u, t)
  \/ \E u \in Users, t \in Tasks : UserGetResult(u, t)

Spec == Init /\ [][Next]_vars

----------------------------------------------------------------------------
(* Properties of the task graph engine, checked under Spec *)

\* No thread is inside a call and the pool has nothing to run.
Quiescent == tasks = <<>> /\ \A th \in Threads : ~Busy(th)

Failed(a) == is_done_[a] /\ exception_[a] # NoExc

\* The callable of t was entered and left by a throw.
Threw(t) == invoked[t] > 0 /\ exception_[t] = Raised(t)

Successors(t) ==
  Seq2Set(successors_unconditional_[t]) \cup Seq2Set(successors_conditional_[t])

FramesOf(th) == {stack[th][k] : k \in DOMAIN stack[th]}

\* C1: each task's callable is invoked at most once: is_scheduled_ is flipped
\* false->true exactly once (it is set iff one caller won the exchange), Execute is
\* entered only by that caller, and the callable runs at most once per Execute.
CallableAtMostOnce ==
  \A t \in AllTasks :
    /\ executes[t] <= 1
    /\ invoked[t] <= executes[t]
    /\ is_scheduled_[t] <=> executes[t] = 1

\* Two callers raced on one task: the flag is already set, its callable has run,
\* and another caller is about to lose the exchange.
RacingTryScheduleSeen ==
  \E th \in Threads : /\ At(th, "exchange")
                      /\ is_scheduled_[Tk(th)]
                      /\ invoked[Tk(th)] = 1

\* C2: a task with a failed conditional predecessor never runs its callable, is
\* done once all its predecessors are done and the engine is at rest, and carries
\* the first exception recorded for it, which came from a failing conditional
\* predecessor; later recordings do not replace it.
FailedConditionalPredecessorSkips ==
  \A b \in Tasks :
    LET failing == {a \in CondPreds(b) : Failed(a)} IN
      failing # {} =>
        /\ invoked[b] = 0
        /\ recorded[b] # <<>> => exception_[b] = recorded[b][1]
        /\ is_done_[b] => /\ recorded[b] # <<>>
                          /\ exception_[b] \in {exception_[a] : a \in failing}
        /\ (Quiescent /\ \A a \in Preds(b) : is_done_[a]) => is_done_[b]

\* Two conditional predecessors failed with different exceptions, both reached the
\* critical section, and the successor is done with the first one.
TwoFailingPredecessorsRecorded ==
  \E b \in Tasks : /\ Len(recorded[b]) = 2
                   /\ recorded[b][1] # recorded[b][2]
                   /\ is_done_[b]
                   /\ invoked[b] = 0

OnlyUnconditional(b) == UncPreds(b) # {} /\ CondPreds(b) = {}

\* C3: a task all of whose predecessors are Finally edges runs its callable exactly
\* once, never before every predecessor is done, whatever their outcomes.
UnconditionalSuccessorRuns ==
  \A b \in Tasks :
    OnlyUnconditional(b) =>
      /\ invoked[b] <= 1
      /\ invoked[b] = 1 => \A a \in Preds(b) : is_done_[a]
      /\ is_done_[b] => invoked[b] = 1
      /\ (Quiescent /\ \A a \in Preds(b) : is_done_[a]) => invoked[b] = 1

\* A Finally-only successor ran although one of its predecessors failed.
UnconditionalRanAfterFailure ==
  \E b \in Tasks : /\ OnlyUnconditional(b)
                   /\ invoked[b] = 1
                   /\ is_done_[b]
                   /\ \E a \in Preds(b) : Failed(a)

IsDiamond ==
  /\ successors_conditional_ = Wire(Diamond).cond
  /\ successors_unconditional_ = Wire(Diamond).unc

\* C4: in the diamond A.Then(B), A.Then(C), B.Finally(D), C.Finally(D) with A
\* throwing X: B and C end done carrying X with their callables not run; D's
\* callable runs exactly once and D holds no exception that was forwarded to it
\* (none at all when its own callable returned).
DiamondWithFailure ==
  (IsDiamond /\ Threw("A") /\ is_done_["A"]) =>
    /\ \A b \in {"B", "C"} :
         /\ invoked[b] = 0
         /\ is_done_[b] => exception_[b] = Raised("A")
    /\ invoked["D"] <= 1
    /\ exception_["D"] \in {NoExc, Raised("D")}
    /\ is_done_["D"] => /\ invoked["D"] = 1
                        /\ is_done_["B"] /\ is_done_["C"]
                        /\ result_["D"] # NoVal => exception_["D"] = NoExc
    /\ Quiescent => \A t \in {"B", "C", "D"} : is_done_[t]

\* The diamond ran to its end with A throwing and D's callable returning.
DiamondFailureCompleted ==
  /\ IsDiamond /\ Threw("A")
  /\ \A t \in {"A", "B", "C", "D"} : is_done_[t]
  /\ exception_["B"] = Raised("A") /\ exception_["C"] = Raised("A")
  /\ invoked["D"] = 1 /\ result_["D"] # NoVal /\ exception_["D"] = NoExc

\* C5: along every edge A->B, B is done only after A; B's callable never starts
\* while a predecessor is not done; and TrySchedule on a task with a positive
\* predecessor count goes no further than the load: the exchange and Execute are
\* reached, and the flag is set, only with the count at zero.
SuccessorAfterPredecessor ==
  /\ \A b \in Tasks : \A a \in Preds(b) :
       /\ is_done_[b] => is_done_[a]
       /\ invoked[b] > 0 => is_done_[a]
       /\ is_scheduled_[b] => is_done_[a]
  /\ \A t \in Tasks : is_scheduled_[t] => predecessor_count_[t] = 0
  /\ \A th \in Threads : \A f \in FramesOf(th) :
       f[1] \in {"exchange", "Execute"} => predecessor_count_[f[2]] = 0

\* A user called TrySchedule on a task that still has predecessors to wait for,
\* while its predecessor is already running.
TryScheduleOnBlockedTask ==
  \E u \in Users : /\ At(u, "TrySchedule")
                   /\ predecessor_count_[Tk(u)] > 0
                   /\ \E a \in Preds(Tk(u)) : invoked[a] = 1 /\ ~is_done_[a]

\* C6: is_done_ is stored exactly once per task (it is set iff NotifyFinished ran
\* once), and a task has called OnPredecessorFinished on a successor only after
\* its own is_done_ was set, on the executed and on the short-circuited path.
DoneOnceBeforeNotify ==
  /\ \A t \in AllTasks : /\ done_stores[t] <= 1
                         /\ is_done_[t] <=> done_stores[t] = 1
  /\ \A pair \in notified : is_done_[pair[1]]

\* Successors were notified by a task that ran and by one that was short-circuited.
NotifiedOnBothPaths ==
  \E p \in notified, q \in notified :
    /\ invoked[p[1]] = 1
    /\ invoked[q[1]] = 0 /\ exception_[q[1]] # NoExc

\* C9: an exception thrown by a callable never leaves the worker job: no worker is
\* lost, the exception is the task's stored exception, the task is done and has
\* notified its successors once the engine is at rest, and GetResult on it
\* rethrows that exception rather than returning a value.
ExceptionCapturedAndRethrown ==
  /\ escaped = {}
  /\ \A t \in Tasks :
       /\ (invoked[t] = 1 /\ result_[t] = NoVal) => exception_[t] = Raised(t)
       /\ (Threw(t) /\ Quiescent) =>
            /\ is_done_[t]
            /\ \A s \in Successors(t) : <<t, s>> \in notified
       /\ (got[t] # Unread /\ exception_[t] # NoExc) =>
            got[t] = <<"throws", exception_[t]>>
       /\ (got[t] # Unread /\ exception_[t] = NoExc) =>
            got[t] = <<"returns", "value">>

\* GetResult was called on a task whose own callable threw, and rethrew.
RethrownToCaller ==
  \E t \in Tasks : Threw(t) /\ got[t] = <<"throws", Raised(t)>>

----------------------------------------------------------------------------
(* Progress of the engine: the pool runs every job it was given and every     *)
(* thread that is inside a call goes on running.                              *)

\* Some thread that has a step to take takes one: no call is started for the sake
\* of progress, but the threads never all stop while one of them can run.
Run ==
  \/ \E th \in Threads : EngineStep(th)
  \/ \E w \in Workers : WorkerTake(w)

Fairness == WF_vars(Run)

\* Completion does not depend on anybody reading results: the callers only schedule.
LiveNext ==
  \/ Run
  \/ \E u \in Users, t \in Tasks : UserTrySchedule(u, t)

LiveSpec == Init /\ [][LiveNext]_vars /\ Fairness

Roots == {t \in live : Preds(t) = {}}

RootsScheduled == \A t \in Roots : is_scheduled_[t]

AllDone == \A t \in live : is_done_[t]

\* C7: once every root of the (acyclic) graph has gone through TrySchedule, every
\* task of the graph eventually is done, whether its callable returned, threw or
\* was skipped because a conditional predecessor failed.
EveryTaskCompletes == RootsScheduled ~> AllDone

\* A graph completed with one callable returned, one thrown and one skipped.
CompletedAllThreeWays ==
  /\ AllDone
  /\ \E t \in live : invoked[t] = 1 /\ result_[t] # NoVal
  /\ \E t \in live : Threw(t)
  /\ \E t \in live : invoked[t] = 0 /\ exception_[t] # NoExc

----------------------------------------------------------------------------
(* TaskBase::Wait against the completion of the task *)

WaitChain == <<<<"Then", "A", "B">>>>

WaitInit == InitGraph(WaitChain)

WaitStep(th) ==
  \/ Wait(th)
  \/ CvWait(th)
  \/ CallGetResult(th)

WaitNext ==
  \/ Run
  \/ \E u \in Users : WaitStep(u)
  \/ \E u \in Users : SpuriousWakeup(u)
  \/ \E u \in Users, t \in Tasks : UserTrySchedule(u, t)
  \/ \E u \in Users, t \in Tasks : UserWait(u, t)

WaitSpec == WaitInit /\ [][WaitNext]_vars

\* C8: Wait has no lost wakeup: no thread is left blocked inside wait_cv_.wait on
\* a task that is already done and whose notify_all has already been issued (no
\* further notification will come, so the thread would never return).
WaitNoLostWakeup ==
  \A u \in Users :
    ~(At(u, "cv_blocked") /\ is_done_[Tk(u)] /\ notify_alls[Tk(u)] >= 1)

----------------------------------------------------------------------------
(* TaskAwaiter: one co_await on a task of the graph *)

\* A range-for over the conditional successors of t has taken begin()/end() and
\* has not left the loop: its iterator points into the vector's storage.
LoopInProgress(t) ==
  \E th \in Threads : \E f \in FramesOf(th) :
    f[1] = "for_conditional" /\ f[2] = t /\ f[4] > 0

\* co_await TaskAwaiter{t, pool} in a coroutine running on thread u.
UserAwait(u, t) ==
  /\ u \in Users /\ Idle(u) /\ t \in live
  /\ awaited = NoTask
  /\ calls < MaxCalls
  /\ calls' = calls + 1
  /\ awaited' = t
  /\ awaiter_void' \in BOOLEAN
  /\ stack' = [stack EXCEPT ![u] = <<F0("await_ready", t)>>]
  /\ UNCHANGED <<taskState, wait_mutex_, tasks, live, crashed, wrappers,
                 tokenState, guardState, busState, history>>

\* await_ready: a done task is not suspended on, the coroutine goes on inline.
AwaitReady(th) ==
  /\ At(th, "await_ready")
  /\ IF is_done_[Tk(th)]
       THEN Continue(th, <<F0("await_resume", Tk(th))>>)
       ELSE Continue(th, <<Fr("Then", Tk(th), Resumption, 0, 0),
                           Fr("IsDone", Tk(th), Resumption, 0, 0)>>)
  /\ UNCHANGED <<taskState, wait_mutex_, tasks, callers, history>>

\* task->Then(next) on a task that may be running (from await_suspend, with the
\* resumption task just made, or from WhenAll, with the aggregate): the
\* push_back.  The vector is not synchronised: a push_back while another thread
\* iterates it is a data race, which leaves the loop on the elements it had or
\* kills the process.
ThenPush(th) ==
  /\ At(th, "Then")
  /\ LET t == Tk(th)
         next == Top(th)[3]
     IN /\ successors_conditional_' =
             [successors_conditional_ EXCEPT ![t] = Append(@, next)]
        /\ live' = live \cup {next}
        /\ IF LoopInProgress(t)
             THEN crashed' \in BOOLEAN
             ELSE UNCHANGED crashed
        /\ Continue(th, <<Fr("fetch_add", next, t, 0, 0)>>)
  /\ UNCHANGED <<predecessor_count_, is_scheduled_, is_done_, exception_, result_,
                 successors_unconditional_, wait_mutex_, tasks, calls, awaited,
                 ext, history>>

\* Then: next->predecessor_count_.fetch_add(1)
FetchAdd(th) ==
  /\ At(th, "fetch_add")
  /\ predecessor_count_' = [predecessor_count_ EXCEPT ![Tk(th)] = @ + 1]
  /\ Continue(th, <<>>)
  /\ UNCHANGED <<is_scheduled_, is_done_, exception_, result_,
                 successors_unconditional_, successors_conditional_,
                 wait_mutex_, tasks, callers, history>>

\* await_suspend: if (task->IsDone()) resumption->OnPredecessorFinished(pool);
\*                else task->TrySchedule(pool);
AwaitIsDone(th) ==
  /\ At(th, "IsDone")
  /\ IF AwaitSuspendDone(Tk(th))
       THEN Continue(th, <<Fr("OnPredecessorFinished", Top(th)[3], NoExc, 0, 0)>>)
       ELSE Continue(th, <<F0("TrySchedule", Tk(th))>>)
  /\ UNCHANGED <<taskState, wait_mutex_, tasks, callers, history>>

\* The resumption task's callable: awaiting_coro.resume().  The coroutine goes on
\* with await_resume on the worker; what it throws stays in its promise.
ResumeCoroutine(th) ==
  /\ At(th, "callback")
  /\ Tk(th) = Resumption
  /\ invoked' = [invoked EXCEPT ![Resumption] = @ + 1]
  /\ resumed' = resumed + 1
  /\ Continue(th, <<F0("await_resume", awaited)>>)
  /\ UNCHANGED <<taskState, wait_mutex_, tasks, callers, executes, done_stores,
                 notify_alls, notified, recorded, got, escaped>>

\* TaskAwaiter<T>::await_resume: return task->GetResult();
\* TaskAwaiter<void>::await_resume has an empty body.
AwaitResume(th) ==
  /\ At(th, "await_resume")
  /\ IF awaiter_void
       THEN /\ got' = [got EXCEPT ![Tk(th)] = <<"returns", NoVal>>]
            /\ Continue(th, <<>>)
       ELSE /\ Continue(th, <<F0("GetResult", Tk(th))>>)
            /\ UNCHANGED got
  /\ UNCHANGED <<taskState, wait_mutex_, tasks, callers, invoked, executes,
                 done_stores, notify_alls, notified, recorded, escaped, resumed>>

AwaitStep(th) ==
  \/ AwaitReady(th)
  \/ ThenPush(th)
  \/ FetchAdd(th)
  \/ AwaitIsDone(th)
  \/ ResumeCoroutine(th)
  \/ AwaitResume(th)
  \/ CallGetResult(th)

AwaitChain == <<<<"Then", "A", "B">>>>

AwaitInit == InitGraph(AwaitChain)

AwaitNext ==
  \/ Run
  \/ \E th \in Threads : AwaitStep(th)
  \/ \E u \in Users, t \in Tasks : UserTrySchedule(u, t)
  \/ \E u \in Users, t \in Tasks : UserAwait(u, t)

AwaitSpec == AwaitInit /\ [][AwaitNext]_vars

\* C10: a co_await resumes the awaiting coroutine at most once, and only after
\* the awaited task is done: the resume callable has run at most once, and
\* whenever it has run, or the coroutine is in await_resume, the task is done.
ResumeOnceAfterDone ==
  /\ resumed <= 1
  /\ invoked[Resumption] = resumed
  /\ resumed >= 1 => awaited # NoTask /\ is_done_[awaited]
  /\ \A th \in Threads : \A f \in FramesOf(th) :
       f[1] \in {"await_resume", "GetResult"} => is_done_[f[2]]

\* The coroutine was resumed in the racing case: the awaited task completed while
\* await_suspend ran, so both the task's NotifySuccessors and await_suspend
\* itself called OnPredecessorFinished on the resumption task.
ResumedAfterRace ==
  /\ resumed = 1
  /\ predecessor_count_[Resumption] = 0 - 1

\* C11: when the awaited task finished with a stored exception the awaiting
\* coroutine is still resumed: the resumption task never completes without having
\* run its callable (the resume), i.e. it is never short-circuited.
ResumedDespiteFailure ==
  (awaited # NoTask /\ Failed(awaited) /\ is_done_[Resumption]) => resumed >= 1

\* What resume_result() owes the coroutine: the stored exception rethrown if
\* there is one, the result otherwise (nothing, for a unit task).
Owed(t) ==
  IF exception_[t] # NoExc THEN <<"throws", exception_[t]>>
  ELSE IF awaiter_void THEN <<"returns", NoVal>>
  ELSE <<"returns", result_[t]>>

\* C12: on resume the awaiter rethrows the awaited task's stored exception if
\* there is one and yields its result otherwise, for TaskAwaiter<T> and for
\* TaskAwaiter<void> alike.
AwaitResumeRethrows ==
  (awaited # NoTask /\ got[awaited] # Unread) => got[awaited] = Owed(awaited)

\* C35: when the awaited task completes while await_suspend runs, the resumption
\* task is still scheduled exactly once, so the suspended coroutine is resumed:
\* the resumption task is never executed twice, and once the awaited task is
\* done without an exception and no thread or queued job is left to run, the
\* resumption task has been executed once and the coroutine resumed once.
ResumptionScheduledOnce ==
  /\ executes[Resumption] <= 1
  /\ (Quiescent /\ ~crashed /\ Resumption \in live /\ awaited # NoTask
        /\ is_done_[awaited] /\ ~Failed(awaited)) =>
       executes[Resumption] = 1 /\ resumed = 1

\* C36: the predecessor count of a task is never negative and reaches zero at
\* most once: a task scheduled on its count having reached zero keeps the count
\* at zero, also when awaiters are attached to tasks already scheduled, running
\* or done.
PredecessorCountSettles ==
  \A t \in AllTasks :
    /\ predecessor_count_[t] >= 0
    /\ is_scheduled_[t] => predecessor_count_[t] = 0

\* C37: once a task has been scheduled its successor sets are never modified: no
\* step adds an edge out of a task that is already scheduled.
SuccessorsFrozenOnceScheduled ==
  [][\A t \in AllTasks :
       is_scheduled_[t] =>
         /\ successors_conditional_'[t] = successors_conditional_[t]
         /\ successors_unconditional_'[t] = successors_unconditional_[t]]_vars

----------------------------------------------------------------------------
(* CancellationToken: Cancel and RegisterCallback on one token *)

CancelAlwaysWon(old) == TRUE

\* Cancel: if (!is_cancelled_.exchange(true))
CancelWon(old) == ~old

RegisterNeverSeesCancelled(c) == FALSE

\* RegisterCallback: if (IsCancelled())
RegisterSeesCancelled(c) == c

\* Cancel: the exchange; only the call that latches goes on to the callbacks.
CancelExchange(th) ==
  /\ At(th, "Cancel")
  /\ is_cancelled_' = TRUE
  /\ IF CancelWon(is_cancelled_)
       THEN /\ latches' = latches + 1
            /\ Continue(th, <<F0("cancel_lock", NoTask)>>)
       ELSE /\ UNCHANGED latches
            /\ Continue(th, <<>>)
  /\ UNCHANGED <<taskState, wait_mutex_, tasks, live, calls, awaited, crashed,
                 awaiter_void, wrappers, callbacks_mutex_, callbacks_,
                 registered, ran, guardState, busState, history>>

\* Cancel: lock_guard(callbacks_mutex_); the range-for starts on callbacks_.
CancelLock(th) ==
  /\ At(th, "cancel_lock")
  /\ callbacks_mutex_ = Free
  /\ callbacks_mutex_' = th
  /\ Continue(th, <<Fr("cancel_for", NoTask, NoExc, 0, Len(callbacks_))>>)
  /\ UNCHANGED <<taskState, wait_mutex_, tasks, live, calls, awaited, crashed,
                 awaiter_void, wrappers, is_cancelled_, callbacks_, registered,
                 ran, latches, guardState, busState, history>>

\* Cancel: one callback() of the loop; after the last one callbacks_.clear() and
\* the lock is released.
CancelFor(th) ==
  /\ At(th, "cancel_for")
  /\ LET i == Top(th)[4]
         n == Top(th)[5]
     IN IF i < n
          THEN /\ ran' = [ran EXCEPT ![callbacks_[i + 1]] = Append(@, "Cancel")]
               /\ Continue(th, <<Fr("cancel_for", NoTask, NoExc, i + 1, n)>>)
               /\ UNCHANGED <<callbacks_, callbacks_mutex_>>
          ELSE /\ callbacks_' = <<>>
               /\ callbacks_mutex_' = Free
               /\ Continue(th, <<>>)
               /\ UNCHANGED ran
  /\ UNCHANGED <<taskState, wait_mutex_, tasks, live, calls, awaited, crashed,
                 awaiter_void, wrappers, is_cancelled_, registered, latches,
                 guardState, busState, history>>

\* RegisterCallback: lock_guard(callbacks_mutex_)
RegisterLock(th) ==
  /\ At(th, "RegisterCallback")
  /\ callbacks_mutex_ = Free
  /\ callbacks_mutex_' = th
  /\ Continue(th, <<Fr("register_check", NoTask, Top(th)[3], 0, 0)>>)
  /\ UNCHANGED <<taskState, wait_mutex_, tasks, live, calls, awaited, crashed,
                 awaiter_void, wrappers, is_cancelled_, callbacks_, registered,
                 ran, latches, guardState, busState, history>>

\* RegisterCallback: run the callback inline on a latched token, else append it;
\* the lock is released on return.
RegisterCheck(th) ==
  /\ At(th, "register_check")
  /\ LET f == Top(th)[3] IN
       /\ IF RegisterSeesCancelled(is_cancelled_)
            THEN /\ ran' = [ran EXCEPT ![f] = Append(@, "RegisterCallback")]
                 /\ UNCHANGED callbacks_
            ELSE /\ callbacks_' = Append(callbacks_, f)
                 /\ UNCHANGED ran
       /\ registered' = registered \cup {f}
  /\ callbacks_mutex_' = Free
  /\ Continue(th, <<>>)
  /\ UNCHANGED <<taskState, wait_mutex_, tasks, live, calls, awaited, crashed,
                 awaiter_void, wrappers, is_cancelled_, latches, guardState, busState,
                 history>>

CancelStep(th) ==
  \/ CancelExchange(th)
  \/ CancelLock(th)
  \/ CancelFor(th)

RegisterStep(th) ==
  \/ RegisterLock(th)
  \/ RegisterCheck(th)

TokenStep(th) ==
  \/ CancelStep(th)
  \/ RegisterStep(th)

\* token->Cancel() by a caller.
UserCancel(u) ==
  /\ u \in Users /\ Idle(u)
  /\ calls < MaxCalls
  /\ calls' = calls + 1
  /\ stack' = [stack EXCEPT ![u] = <<F0("Cancel", NoTask)>>]
  /\ UNCHANGED <<taskState, wait_mutex_, tasks, live, awaited, crashed, ext,
                 history>>

\* A callback is being registered by some thread.
Registering(f) ==
  \E th \in Threads : \E fr \in FramesOf(th) :
    fr[1] \in {"RegisterCallback", "register_check"} /\ fr[3] = f

\* token->RegisterCallback(f) by a caller; every callback is handed over once.
UserRegisterCallback(u, f) ==
  /\ u \in Users /\ Idle(u)
  /\ f \notin registered /\ ~Registering(f)
  /\ calls < MaxCalls
  /\ calls' = calls + 1
  /\ stack' = [stack EXCEPT ![u] = <<Fr("RegisterCallback", NoTask, f, 0, 0)>>]
  /\ UNCHANGED <<taskState, wait_mutex_, tasks, live, awaited, crashed, ext,
                 history>>

\* A token on which the callbacks pre were registered before anything else.
InitToken(pre) ==
  /\ NewBus(<<>>)
  /\ predecessor_count_ = Unwired.count
  /\ successors_unconditional_ = Unwired.unc
  /\ successors_conditional_ = Unwired.cond
  /\ live = {}
  /\ callback_ = [t \in AllTasks |-> Work]
  /\ worked = [t \in AllTasks |-> <<>>]
  /\ awaiter_void = FALSE
  /\ is_cancelled_ = FALSE
  /\ callbacks_mutex_ = Free
  /\ callbacks_ = pre
  /\ registered = Seq2Set(pre)
  /\ ran = [f \in Callbacks |-> <<>>]
  /\ latches = 0
  /\ stop_timer_ = FALSE
  /\ expired = FALSE
  /\ joined = "no"
  /\ is_scheduled_ = [t \in AllTasks |-> FALSE]
  /\ is_done_ = [t \in AllTasks |-> FALSE]
  /\ exception_ = [t \in AllTasks |-> NoExc]
  /\ result_ = [t \in AllTasks |-> NoVal]
  /\ wait_mutex_ = [t \in AllTasks |-> Free]
  /\ tasks = <<>>
  /\ stack = [th \in Threads |-> <<>>]
  /\ calls = 0
  /\ invoked = [t \in AllTasks |-> 0]
  /\ executes = [t \in AllTasks |-> 0]
  /\ done_stores = [t \in AllTasks |-> 0]
  /\ notify_alls = [t \in AllTasks |-> 0]
  /\ notified = {}
  /\ recorded = [t \in AllTasks |-> <<>>]
  /\ got = [t \in AllTasks |-> Unread]
  /\ escaped = {}
  /\ awaited = NoTask
  /\ resumed = 0
  /\ crashed = FALSE

TokenInit == \E pre \in {<<>>, <<"f1">>} : InitToken(pre)

TokenNext ==
  \/ \E th \in Threads : TokenStep(th)
  \/ \E u \in Users : UserCancel(u)
  \/ \E u \in Users, f \in Callbacks : UserRegisterCallback(u, f)

TokenSpec == TokenInit /\ [][TokenNext]_vars

\* No thread is inside Cancel.
NoCancelRunning ==
  \A th \in Threads : \A fr \in FramesOf(th) :
    fr[1] \notin {"Cancel", "cancel_lock", "cancel_for"}

RegisteredRunsExactlyOnce ==
  \A f \in Callbacks :
    /\ Len(ran[f]) <= 1
    /\ ran[f] # <<>> => f \in registered \/ callbacks_mutex_ # Free
    /\ ran[f] # <<>> => is_cancelled_
    /\ (f \in registered /\ ran[f] = <<>>) => f \in Seq2Set(callbacks_)
    /\ (f \in registered /\ is_cancelled_ /\ NoCancelRunning) => Len(ran[f]) = 1

\* RegisterCallback overtook a Cancel that had latched the token but not yet
\* taken the lock, and ran its callback inline.
RegisteredDuringCancel ==
  /\ \E f \in Callbacks : f \in registered /\ ran[f] = <<"RegisterCallback">>
  /\ \E th \in Threads : At(th, "cancel_lock")

----------------------------------------------------------------------------
(* WithCancellation: a task whose callable checks the token before the work *)

Holding(t, k) == [x \in AllTasks |-> IF x = t THEN k ELSE Work]

WithCancellationInit == InitTasks(<<>>, {"A"}, Holding("A", WithCancellationFn))

WithCancellationNext ==
  \/ Run
  \/ \E th \in Threads : CancelStep(th)
  \/ \E th \in Threads : AwaitStep(th)
  \/ \E u \in Users : UserCancel(u)
  \/ \E u \in Users, t \in Tasks : UserTrySchedule(u, t)
  \/ \E u \in Users, t \in Tasks : UserGetResult(u, t)
  \/ \E u \in Users, t \in Tasks : UserAwait(u, t)

WithCancellationSpec == WithCancellationInit /\ [][WithCancellationNext]_vars

\* The part of C15 that concerns the task itself: work is never begun with the
\* token cancelled, a task that ended with the cancellation error never began its
\* work, and GetResult rethrows that error.
CancelledBeforeStart ==
  \A t \in Tasks :
    /\ \A k \in DOMAIN worked[t] : worked[t][k] = FALSE
    /\ exception_[t] = Cancelled => worked[t] = <<>> /\ result_[t] = NoVal
    /\ (exception_[t] = Cancelled /\ got[t] # Unread /\ awaited # t) =>
         got[t] = <<"throws", Cancelled>>

\* C15: a WithCancellation task whose token is cancelled before its callable
\* starts never invokes work, and the cancellation error it ends with surfaces on
\* GetResult and on await: whoever reads the task gets the error thrown, and a
\* coroutine awaiting the task is resumed to receive it.
CancellationSurfaces ==
  /\ CancelledBeforeStart
  /\ \A t \in Tasks :
       (exception_[t] = Cancelled /\ got[t] # Unread) =>
         got[t] = <<"throws", Cancelled>>
  /\ (awaited # NoTask /\ exception_[awaited] = Cancelled /\ is_done_[Resumption])
       => resumed >= 1

----------------------------------------------------------------------------
(* WithTimeout: the callable arms a TimeoutGuard around the work *)

\* The clock reaches the guard's deadline.
DeadlinePasses ==
  /\ ~crashed
  /\ ~expired
  /\ \E t \in live : callback_[t] = WithTimeoutFn /\ invoked[t] >= 1
  /\ expired' = TRUE
  /\ UNCHANGED <<taskState, wait_mutex_, tasks, stack, live, calls, awaited,
                 crashed, awaiter_void, wrappers, tokenState, busState, stop_timer_,
                 joined, history>>

\* WithTimeout's callable begins: TimeoutGuard guard(token, timeout) starts the
\* timer thread.
GuardCtor(th) ==
  /\ At(th, "callback")
  /\ callback_[Tk(th)] = WithTimeoutFn
  /\ invoked' = [invoked EXCEPT ![Tk(th)] = @ + 1]
  /\ stack' = [stack EXCEPT
       ![th] = <<F0("throw_if_cancelled", Tk(th))>> \o Tail(stack[th]),
       ![Timer] = <<F0("timer_loop", Tk(th))>>]
  /\ UNCHANGED <<taskState, wait_mutex_, tasks, callers, executes, done_stores,
                 notify_alls, notified, recorded, got, escaped, resumed>>

\* token->ThrowIfCancelled(): a throw unwinds through the guard's destructor,
\* otherwise work() begins.
GuardedCheck(th) ==
  /\ At(th, "throw_if_cancelled")
  /\ IF ThrowIfCancelled(is_cancelled_)
       THEN /\ Continue(th, <<Fr("~TimeoutGuard", Tk(th), Cancelled, 0, 0)>>)
            /\ UNCHANGED worked
       ELSE /\ Continue(th, <<F0("work", Tk(th))>>)
            /\ worked' = [worked EXCEPT ![Tk(th)] = Append(@, is_cancelled_)]
  /\ UNCHANGED <<taskState, wait_mutex_, tasks, live, calls, awaited, crashed,
                 awaiter_void, callback_, tokenState, guardState, busState, history>>

\* work() ends, returning or throwing; it never looks at the token.
GuardedWork(th) ==
  /\ At(th, "work")
  /\ \E o \in WorkRuns(Tk(th), FALSE) :
       Continue(th, <<Fr("~TimeoutGuard", Tk(th), o[2], 0, 0)>>)
  /\ UNCHANGED <<taskState, wait_mutex_, tasks, callers, history>>

\* ~TimeoutGuard: stop_timer_.store(true).  The frame remembers whether the
\* deadline had elapsed when the destructor began.
GuardDtor(th) ==
  /\ At(th, "~TimeoutGuard")
  /\ stop_timer_' = TRUE
  /\ Continue(th, <<Fr("join", Tk(th), Top(th)[3],
                       IF expired THEN 1 ELSE 0, 0)>>)
  /\ UNCHANGED <<taskState, wait_mutex_, tasks, live, calls, awaited, crashed,
                 awaiter_void, wrappers, tokenState, busState, expired, joined, history>>

\* A destructor that would return without waiting for the timer thread.
TimerDetached ==
  TRUE

\* timer_thread_.join() blocks until the timer thread's function has returned.
TimerJoined ==
  stack[Timer] = <<>>

\* ~TimeoutGuard: timer_thread_.join() returns once the timer thread has ended;
\* the callable is left, and the job stores its value or, in catch (...), what
\* it threw.
GuardJoin(th) ==
  /\ At(th, "join")
  /\ TimerJoined
  /\ joined' = IF Top(th)[4] = 1 THEN "late" ELSE "early"
  /\ LET t == Tk(th)
         e == Top(th)[3]
     IN IF e = NoExc
          THEN /\ result_' = [result_ EXCEPT ![t] = "value"]
               /\ UNCHANGED exception_
          ELSE /\ exception_' = [exception_ EXCEPT ![t] = e]
               /\ UNCHANGED result_
  /\ Continue(th, <<>>)
  /\ UNCHANGED <<predecessor_count_, is_scheduled_, is_done_,
                 successors_unconditional_, successors_conditional_,
                 wait_mutex_, tasks, live, calls, awaited, crashed,
                 awaiter_void, wrappers, tokenState, busState, stop_timer_, expired,
                 history>>

\* Timer thread: while (!stop_timer_.load())
TimerLoop ==
  /\ At(Timer, "timer_loop")
  /\ IF stop_timer_
       THEN Continue(Timer, <<>>)
       ELSE Continue(Timer, <<F0("timer_now", Tk(Timer))>>)
  /\ UNCHANGED <<taskState, wait_mutex_, tasks, callers, history>>

\* Timer thread: if (now >= deadline) { token_->Cancel(); return; }
TimerNow ==
  /\ At(Timer, "timer_now")
  /\ IF expired
       THEN Continue(Timer, <<F0("Cancel", NoTask)>>)
       ELSE Continue(Timer, <<F0("timer_sleep", Tk(Timer))>>)
  /\ UNCHANGED <<taskState, wait_mutex_, tasks, callers, history>>

\* Timer thread: sleep_for(min(remaining, 10ms)), then the loop test again.
TimerSleep ==
  /\ At(Timer, "timer_sleep")
  /\ Continue(Timer, <<F0("timer_loop", Tk(Timer))>>)
  /\ UNCHANGED <<taskState, wait_mutex_, tasks, callers, history>>

GuardStep(th) ==
  \/ GuardCtor(th)
  \/ GuardedCheck(th)
  \/ GuardedWork(th)
  \/ GuardDtor(th)
  \/ GuardJoin(th)

TimerStep ==
  \/ TimerLoop
  \/ TimerNow
  \/ TimerSleep

WithTimeoutInit ==
  InitTasks(<<<<"Then", "A", "B">>>>, {"A", "B"}, Holding("A", WithTimeoutFn))

WithTimeoutNext ==
  \/ Run
  \/ DeadlinePasses
  \/ TimerStep
  \/ \E th \in Threads : GuardStep(th)
  \/ \E th \in Threads : CancelStep(th)
  \/ \E th \in Threads : CallGetResult(th)
  \/ \E u \in Users, t \in Tasks : UserTrySchedule(u, t)
  \/ \E u \in Users, t \in Tasks : UserGetResult(u, t)

WithTimeoutSpec == WithTimeoutInit /\ [][WithTimeoutNext]_vars

\* C16: for WithTimeout(work, d) with work running beyond d without polling: once
\* the task is done, its stored exception is the cancellation error, the token
\* reports cancelled and the guard's timer thread has been joined.
TimeoutFires ==
  \A t \in Tasks :
    (callback_[t] = WithTimeoutFn /\ is_done_[t] /\ worked[t] # <<>>
       /\ joined = "late")
      => exception_[t] = Cancelled /\ is_cancelled_ /\ stack[Timer] = <<>>

\* C17: if the deadline elapsed before the guard was destroyed, the token has been
\* cancelled by the guard, exactly once, when the destructor returns.
GuardCancelsOnce ==
  joined = "late" => is_cancelled_ /\ latches = 1

\* C40: a guard whose destructor returns before the deadline has elapsed has not
\* cancelled its token and its timer thread has ended; once the destructor has
\* returned the timer thread stays ended and the token is not latched any more,
\* whether or not the deadline passes later.
EarlyGuardNeverCancels ==
  [][/\ (joined = "no" /\ joined' # "no" /\ ~expired) =>
          (latches' = 0 /\ ~is_cancelled_' /\ stack'[Timer] = <<>>)
     /\ joined # "no" =>
          (latches' = latches /\ is_cancelled_' = is_cancelled_
             /\ stack'[Timer] = <<>>)]_vars

\* The work finished in time: the task holds work's value, the guard is gone,
\* the deadline passed only afterwards and the token is still not cancelled.
FinishedInTime ==
  /\ joined = "early"
  /\ expired
  /\ is_done_["A"]
  /\ result_["A"] = "value"
  /\ ~is_cancelled_
  /\ latches = 0

----------------------------------------------------------------------------
(* WhenAll and WhenAllWithCancellation: one aggregate over the tasks made *)

\* The vector of tasks handed to the helper: every task the caller has made.
Inputs == SelectSeq(<<"A", "B", "C", "D">>, LAMBDA t : t \in live)

\* Mutant: only the first task is wired to the aggregate.
WiringFirstOnly(ins) ==
  [k \in DOMAIN ins \cap {1} |-> Fr("Then", ins[k], Aggregate, 0, 0)]

\* for (auto& task : tasks) task->Then(aggregate_task);
Wiring(ins) == [k \in DOMAIN ins |-> Fr("Then", ins[k], Aggregate, 0, 0)]

\* for (auto& task : tasks) task->TrySchedule(pool);
Scheduling(ins) == [k \in DOMAIN ins |-> F0("TrySchedule", ins[k])]

\* The body both helpers share once the token has been looked at: an empty
\* vector gives a task with an empty callable, scheduled at once; otherwise the
\* aggregate holding callable k is made, then the two loops run.
Gather(u, k) ==
  /\ live' = live \cup {Aggregate}
  /\ IF Inputs = <<>>
       THEN /\ callback_' = [callback_ EXCEPT ![Aggregate] = NoOp]
            /\ stack' = [stack EXCEPT ![u] = <<F0("TrySchedule", Aggregate)>>]
       ELSE /\ callback_' = [callback_ EXCEPT ![Aggregate] = k]
            /\ stack' = [stack EXCEPT ![u] = Wiring(Inputs) \o Scheduling(Inputs)]

\* WhenAll(pool, tasks) called by u.
WhenAll(u) ==
  /\ u \in Users /\ Idle(u)
  /\ Aggregate \notin live
  /\ calls < MaxCalls
  /\ calls' = calls + 1
  /\ Gather(u, NoOp)
  /\ UNCHANGED <<taskState, wait_mutex_, tasks, awaited, crashed, awaiter_void,
                 worked, tokenState, guardState, busState, history>>

\* The body of WhenAllWithCancellation on thread u.
GatherUnlessCancelled(u) ==
  IF IsCancelled(is_cancelled_)
    THEN /\ live' = live \cup {Aggregate}
         /\ callback_' = [callback_ EXCEPT ![Aggregate] = ThrowCancelled]
         /\ stack' = [stack EXCEPT ![u] = <<F0("TrySchedule", Aggregate)>>]
    ELSE Gather(u, ThrowIfTokenCancelled)

\* WhenAllWithCancellation(pool, tasks, token) called by u: a token found
\* cancelled gives a task that throws, scheduled at once.
WhenAllWithCancellation(u) ==
  /\ u \in Users /\ Idle(u)
  /\ Aggregate \notin live
  /\ calls < MaxCalls
  /\ calls' = calls + 1
  /\ GatherUnlessCancelled(u)
  /\ UNCHANGED <<taskState, wait_mutex_, tasks, awaited, crashed, awaiter_void,
                 worked, tokenState, guardState, busState, history>>

WhenAllStep(th) ==
  \/ ThenPush(th)
  \/ FetchAdd(th)

\* The caller made no task, one task or two tasks before the call.
WhenAllInit ==
  \E nodes \in {{}, {"A"}, {"A", "B"}} :
    InitTasks(<<>>, nodes, [t \in AllTasks |-> Work])

\* The inputs are handed over as they were made, as PublishAsync does.
WhenAllFreshNext ==
  \/ Run
  \/ \E th \in Threads : WhenAllStep(th)
  \/ \E th \in Threads : CancelStep(th)
  \/ \E u \in Users : UserCancel(u)
  \/ \E u \in Users : WhenAll(u)
  \/ \E u \in Users : WhenAllWithCancellation(u)

WhenAllFreshSpec == WhenAllInit /\ [][WhenAllFreshNext]_vars

\* The caller may also have scheduled an input itself.
WhenAllNext ==
  \/ WhenAllFreshNext
  \/ \E u \in Users, t \in Tasks : UserTrySchedule(u, t)

WhenAllSpec == WhenAllInit /\ [][WhenAllNext]_vars

InputsDone == \A k \in DOMAIN Inputs : is_done_[Inputs[k]]

\* C18: the aggregate task WhenAll returns reaches done if and only if every
\* input reaches done, whatever the inputs were when WhenAll was called: it is
\* never done while an input is not, and once every input is done and no thread
\* or queued job is left to run, it is done.
WhenAllCompletesWithInputs ==
  (Aggregate \in live /\ callback_[Aggregate] = NoOp) =>
    /\ is_done_[Aggregate] => InputsDone
    /\ (Quiescent /\ InputsDone) => is_done_[Aggregate]

FailedInputs == {t \in Seq2Set(Inputs) : Failed(t)}

AggregateCallableRuns ==
  /\ callback_[Aggregate] = ThrowIfTokenCancelled
  /\ invoked[Aggregate] = 0
  /\ invoked'[Aggregate] = 1

\* The helper returns its task in this step.
AggregateMade == Aggregate \notin live /\ Aggregate \in live'

----------------------------------------------------------------------------
(* EventBus: the registry of handlers and the handles on it *)

\* The handlers the callers subscribe: each closure is subscribed at most once,
\* so a closure names its registration.
Handlers == {"H1", "H2", "H3"}

\* safe_handler of EventScope::SubscribeAsync around H1, H2, H3.
SafeHandlers == {"S1", "S2", "S3"}

Closures == Handlers \cup SafeHandlers

\* [token, handler](const E& event) { ...; handler(event); }
Safe(h) == CASE h = "H1" -> "S1" [] h = "H2" -> "S2" [] OTHER -> "S3"

\* The user's handler a closure ends in.
Wrapped(c) ==
  CASE c = "S1" -> "H1" [] c = "S2" -> "H2" [] c = "S3" -> "H3" [] OTHER -> c

\* The event types.
Events == {"E", "F"}

\* An unordered_map as a function on its keys.
Put(m, k, v) == [x \in DOMAIN m \cup {k} |-> IF x = k THEN v ELSE m[x]]

Erase(m, k) == [x \in DOMAIN m \ {k} |-> m[x]]

\* Mutant: the handlers of every key of the registry.
InnerOfAll(e) ==
  LET m == bus.event_handlers_
      ids == UNION {DOMAIN m[k] : k \in DOMAIN m}
  IN [id \in ids |-> m[CHOOSE k \in DOMAIN m : id \in DOMAIN m[k]][id]]

\* event_handlers_[type_id]: operator[] makes the inner map when it is absent.
Inner(e) ==
  IF e \in DOMAIN bus.event_handlers_ THEN bus.event_handlers_[e]
  ELSE [id \in {} |-> NoTask]

\* The closures a caller has subscribed, or is subscribing.
Subscribing ==
  {f[2] : f \in UNION {FramesOf(th) : th \in Threads}} \cap Closures

\* The threads in a fixed order.
ThreadOrder == <<"u1", "u2", "w1", "w2">>

\* th is the first idle thread of ths: idle threads of one kind are alike, so
\* the next call, or the next job, is put on the first of them.
FirstIdle(th, ths) ==
  /\ th \in ths /\ Idle(th)
  /\ \A j, k \in DOMAIN ThreadOrder :
       (ThreadOrder[k] = th /\ ThreadOrder[j] \in ths /\ Idle(ThreadOrder[j]))
         => k <= j

\* The user thread that makes the next call.
Caller(u) == FirstIdle(u, Users)

\* The closures in the order the callers use them.
ClosureOrder == <<"H1", "H2", "H3", "S1", "S2", "S3">>

\* The first closure of cs not yet subscribed; NoTask when all are.
NextFresh(cs) ==
  LET fresh == {k \in DOMAIN ClosureOrder :
                  /\ ClosureOrder[k] \in cs
                  /\ ClosureOrder[k] \notin DOMAIN seen.handles \cup Subscribing}
  IN IF fresh = {} THEN NoTask
     ELSE ClosureOrder[CHOOSE k \in fresh : \A j \in fresh : k <= j]

\* What no step of the bus touches.
offBus == <<taskState, wait_mutex_, live, awaited, crashed, awaiter_void,
            wrappers, guardState>>

\* std::unique_lock<std::mutex> lock(handlers_mutex_), th going on at pc next.
LockHandlers(th, next) ==
  /\ bus.handlers_mutex_ = Free
  /\ bus' = [bus EXCEPT !.handlers_mutex_ = th]
  /\ Continue(th, <<Fr(next, Tk(th), Top(th)[3], Top(th)[4], Top(th)[5])>>)
  /\ UNCHANGED <<offBus, tasks, calls, tokenState, scope, seen, history>>

\* Mutant: the counter is not advanced.
SameHandlerId(n) == n

\* handler_id = next_handler_id_++
NextHandlerId(n) == n + 1

\* Mutant: the handler is not stored.
RegisterNothing(m, id, c) == m

\* event_handlers_[type_id][handler_id] = std::move(type_erased_handler)
Register(m, id, c) == Put(m, id, c)

\* EventBus::Subscribe<E>: the lock.
SubscribeLock(th) ==
  /\ At(th, "Subscribe")
  /\ LockHandlers(th, "Subscribe_insert")

\* EventBus::Subscribe<E>: take the id, insert, unlock, return the handle.
SubscribeInsert(th) ==
  /\ At(th, "Subscribe_insert")
  /\ LET c == Tk(th)
         e == Top(th)[3]
         handler_id == bus.next_handler_id_
     IN /\ bus' = [bus EXCEPT
                     !.next_handler_id_ = NextHandlerId(@),
                     !.event_handlers_ = Put(@, e, Register(Inner(e), handler_id, c)),
                     !.handlers_mutex_ = Free]
        /\ seen' = [seen EXCEPT !.ids = Append(@, handler_id),
                                !.handles = Put(@, c, <<e, handler_id>>)]
  /\ Continue(th, <<>>)
  /\ UNCHANGED <<offBus, tasks, calls, tokenState, scope, history>>

\* Mutant: Unsubscribe erases nothing.
EraseNothing(m, k) == m

\* EventBus::Unsubscribe: event_it->second.erase(handler_id), and the inner map
\* itself when that leaves it empty.
Unregister(m, k) == Erase(m, k)

\* Mutant: an inner map left empty is kept.
InnerNeverEmpty(m) == FALSE

\* if (event_it->second.empty())
InnerEmpty(m) == DOMAIN m = {}

\* EventHandle::Unsubscribe -> EventBus::Unsubscribe: the lock.
UnsubscribeLock(th) ==
  /\ At(th, "Unsubscribe")
  /\ LockHandlers(th, "Unsubscribe_erase")

\* EventBus::Unsubscribe: find, erase, unlock.
UnsubscribeErase(th) ==
  /\ At(th, "Unsubscribe_erase")
  /\ LET c == Tk(th)
         e == seen.handles[c][1]
         handler_id == seen.handles[c][2]
         left == Unregister(Inner(e), handler_id)
     IN /\ bus' = [bus EXCEPT
                     !.event_handlers_ =
                        IF e \notin DOMAIN @ THEN @
                        ELSE IF InnerEmpty(left) THEN Erase(@, e)
                        ELSE Put(@, e, left),
                     !.handlers_mutex_ = Free]
        /\ seen' = [seen EXCEPT !.unsubscribed = @ \cup {c}]
  /\ Continue(th, <<>>)
  /\ UNCHANGED <<offBus, tasks, calls, tokenState, scope, history>>

\* Another thread is inside Subscribe when u calls it.
OtherSubscribing(u) ==
  \E th \in Threads \ {u} : \E f \in FramesOf(th) :
    f[1] \in {"Subscribe", "Subscribe_insert"}

\* bus->Subscribe<E>(h) by a caller.
UserSubscribe(u, h, e) ==
  /\ Caller(u)
  /\ h = NextFresh(Handlers)
  /\ calls < MaxCalls
  /\ calls' = calls + 1
  /\ seen' = [seen EXCEPT !.overlapped = @ \/ OtherSubscribing(u)]
  /\ stack' = [stack EXCEPT ![u] = <<Fr("Subscribe", h, e, 0, 0)>>]
  /\ UNCHANGED <<offBus, tasks, tokenState, bus, scope, history>>

\* handle.Unsubscribe() by the caller holding the handle of closure c.
UserUnsubscribe(u, c) ==
  /\ Caller(u)
  /\ c \in DOMAIN seen.handles
  /\ c \notin seen.unsubscribing \cup seen.dropped \cup seen.through
  /\ calls < MaxCalls
  /\ calls' = calls + 1
  /\ seen' = [seen EXCEPT !.unsubscribing = @ \cup {c}]
  /\ stack' = [stack EXCEPT ![u] = <<F0("Unsubscribe", c)>>]
  /\ UNCHANGED <<offBus, tasks, tokenState, bus, scope, history>>

\* The ways to put the values of a map in a row: an unordered_map is iterated in
\* an order the program does not choose.
Orderings(m) ==
  LET n == Cardinality(DOMAIN m) IN
    {[k \in 1..n |-> m[o[k]]] :
       o \in {q \in [1..n -> DOMAIN m] : \A i, j \in 1..n : q[i] = q[j] => i = j}}

\* std::exception and what derives from it; any other thrown object.
StdException == "std::exception"

OtherException == "other"

\* Mutant: the guard around a handler is catch (...).
EmitCatchesAll(x) == TRUE

\* catch (const std::exception&)
EmitCatches(x) == x = StdException

\* What an emit found when it took its snapshot of event e, order snap.
EmitRecord(e, snap) ==
  [event |-> e, snap |-> snap,
   must |-> {c \in DOMAIN seen.handles :
               seen.handles[c][1] = e /\ c \notin seen.unsubscribing},
   mustnot |-> seen.unsubscribed
                 \cup {c \in DOMAIN seen.handles : seen.handles[c][1] # e},
   prior |-> {k \in DOMAIN seen.emits : seen.emits[k].done},
   gone |-> seen.dropped,
   entered |-> <<>>, done |-> FALSE, failed |-> FALSE]

\* EventBus::Emit: the lock.
EmitLock(th) ==
  /\ At(th, "Emit")
  /\ LockHandlers(th, "Emit_snapshot")

\* Mutant: the lock lasts as long as the call.
SnapshotKeepsLock(th) == th

\* The block of the unique_lock ends when the copy is made: the holder of
\* handlers_mutex_ once th has left it.
SnapshotUnlock(th) == Free

\* Mutant: the loop stops after the first handler of the copy.
LoopOverFirst(snap, e, n) ==
  [k \in DOMAIN snap \cap {1} |-> Fr("handler", snap[k], e, 0, n)]

\* for (auto& handler : handlers_snapshot): one call per handler of the copy,
\* for emit n of event e.
LoopOver(snap, e, n) == [k \in DOMAIN snap |-> Fr("handler", snap[k], e, 0, n)]

\* EventBus::Emit: copy the handlers of the event, unlock; the loop over the
\* copy is what is left to run.
EmitSnapshot(th) ==
  /\ At(th, "Emit_snapshot")
  /\ \E snap \in Orderings(Inner(Top(th)[3])) :
       LET e == Top(th)[3]
           n == Len(seen.emits) + 1
       IN /\ seen' = [seen EXCEPT !.emits = Append(@, EmitRecord(e, snap))]
          /\ Continue(th, LoopOver(snap, e, n)
                            \o <<Fr("Emit_return", NoTask, e, 0, n)>>)
  /\ bus' = [bus EXCEPT !.handlers_mutex_ = SnapshotUnlock(th)]
  /\ UNCHANGED <<offBus, tasks, calls, tokenState, scope, history>>

\* Mutant: safe_handler does not look at the token.
SafeHandlerNeverSkips(c, cancelled) == FALSE

\* safe_handler: if (token && token->IsCancelled()) return;
SafeHandlerSkips(c, cancelled) == c \in SafeHandlers /\ cancelled

\* handler(&event): the closure is entered.  safe_handler returns at once when
\* the scope's token is cancelled; otherwise the user's handler begins.  An
\* entry is late when the scope the handler was registered through is gone,
\* stale when the Unsubscribe of the handler has returned.
HandlerCall(th) ==
  /\ At(th, "handler")
  /\ LET c == Tk(th)
         n == Top(th)[5]
         job == Top(th)[4]
     IN IF SafeHandlerSkips(c, IsCancelled(is_cancelled_))
          THEN /\ Continue(th, <<>>)
               /\ seen' = [seen EXCEPT
                    !.jobs = IF job = 0 THEN @
                             ELSE [@ EXCEPT ![job].skipped = TRUE]]
          ELSE /\ Continue(th, <<Fr("user_code", c, Top(th)[3], job, n)>>)
               /\ seen' = [seen EXCEPT
                    !.emits = IF n = 0 THEN @
                              ELSE [@ EXCEPT ![n].entered = Append(@, c)],
                    !.jobs = IF job = 0 THEN @
                             ELSE [@ EXCEPT ![job].entered = TRUE],
                    !.late = IF c \in seen.through /\ scope.life = "destroyed"
                               THEN @ \cup {c} ELSE @,
                    !.stale = IF c \in seen.unsubscribed THEN @ \cup {c} ELSE @]
  /\ UNCHANGED <<offBus, tasks, calls, tokenState, bus, scope, history>>

\* The user's handler returns.
HandlerReturns(th) ==
  /\ At(th, "user_code")
  /\ Continue(th, <<>>)
  /\ seen' = [seen EXCEPT
       !.jobs = IF Top(th)[4] = 0 THEN @
                ELSE [@ EXCEPT ![Top(th)[4]].completed = TRUE]]
  /\ UNCHANGED <<offBus, tasks, calls, tokenState, bus, scope, history>>

\* The frames of th below the call that is running the handler.
Unwound(th) ==
  LET ends == {k \in DOMAIN stack[th] : stack[th][k][1] = "Emit_return"} IN
    IF ends = {} THEN <<>>
    ELSE LET first == CHOOSE k \in ends : \A j \in ends : k <= j
         IN SubSeq(stack[th], first + 1, Len(stack[th]))

\* The user's handler throws x.  The guard of Emit and of the EmitAsync job takes
\* what it catches and the loop goes on; anything else leaves Emit to its caller,
\* or leaves the job and the worker's thread function with it.
HandlerThrows(th, x) ==
  /\ At(th, "user_code")
  /\ LET n == Top(th)[5]
         job == Top(th)[4]
     IN /\ seen' = [seen EXCEPT
             !.emits = IF n = 0 THEN @
                       ELSE [@ EXCEPT ![n].failed = ~EmitCatches(x)],
             !.jobs = IF job = 0 THEN @
                      ELSE [@ EXCEPT ![job].completed = TRUE]]
        /\ IF EmitCatches(x)
             THEN /\ Continue(th, <<>>)
                  /\ UNCHANGED escaped
             ELSE /\ stack' = [stack EXCEPT ![th] = Unwound(th)]
                  /\ escaped' = IF th \in Workers THEN escaped \cup {th}
                                ELSE escaped
  /\ UNCHANGED <<offBus, tasks, calls, tokenState, bus, scope, invoked, executes,
                 done_stores, notify_alls, notified, recorded, got, resumed>>

\* The user's handler subscribes another handler for the same event before it
\* returns.
HandlerSubscribes(th, h) ==
  /\ At(th, "user_code")
  /\ Top(th)[5] # 0
  /\ h = NextFresh(Handlers)
  /\ Continue(th, <<Fr("Subscribe", h, Top(th)[3], 0, 0),
                    Fr("user_code", Tk(th), Top(th)[3], Top(th)[4], Top(th)[5])>>)
  /\ seen' = [seen EXCEPT !.within = Put(@, h, Top(th)[5])]
  /\ UNCHANGED <<offBus, tasks, calls, tokenState, bus, scope, history>>

\* EventBus::Emit returns to its caller.
EmitReturn(th) ==
  /\ At(th, "Emit_return")
  /\ seen' = [seen EXCEPT !.emits = [@ EXCEPT ![Top(th)[5]].done = TRUE]]
  /\ Continue(th, <<>>)
  /\ UNCHANGED <<offBus, tasks, calls, tokenState, bus, scope, history>>

\* bus->Emit(E{...}) by a caller.
UserEmit(u, e) ==
  /\ Caller(u)
  /\ calls < MaxCalls
  /\ calls' = calls + 1
  /\ stack' = [stack EXCEPT ![u] = <<Fr("Emit", NoTask, e, 0, 0)>>]
  /\ UNCHANGED <<offBus, tasks, tokenState, busState, history>>

SubscribeStep(th) ==
  \/ SubscribeLock(th)
  \/ SubscribeInsert(th)

UnsubscribeStep(th) ==
  \/ UnsubscribeLock(th)
  \/ UnsubscribeErase(th)

EmitStep(th) ==
  \/ EmitLock(th)
  \/ EmitSnapshot(th)
  \/ HandlerCall(th)
  \/ HandlerReturns(th)
  \/ EmitReturn(th)

\* What was subscribed on the bus, directly, before the calls looked at.
Subscribed ==
  {<<>>,
   <<<<"H1", "E", "bus">>>>,
   <<<<"H1", "E", "bus">>, <<"H2", "E", "bus">>>>,
   <<<<"H1", "E", "bus">>, <<"H2", "F", "bus">>>>}

BusInit ==
  \E pre \in Subscribed : InitBus(<<>>, {}, [t \in AllTasks |-> Work], pre)

\* Callers subscribe, unsubscribe and emit E; handlers return, throw what the
\* guard catches, or subscribe.
BusNext ==
  \/ \E th \in Threads : SubscribeStep(th)
  \/ \E th \in Threads : UnsubscribeStep(th)
  \/ \E th \in Threads : EmitStep(th)
  \/ \E th \in Threads : HandlerThrows(th, StdException)
  \/ \E th \in Threads, h \in Handlers : HandlerSubscribes(th, h)
  \/ \E u \in Users, h \in Handlers, e \in Events : UserSubscribe(u, h, e)
  \/ \E u \in Users, c \in Closures : UserUnsubscribe(u, c)
  \/ \E u \in Users : UserEmit(u, "E")

BusSpec == BusInit /\ [][BusNext]_vars

\* s is the beginning of t.
IsPrefix(s, t) == Len(s) <= Len(t) /\ \A k \in DOMAIN s : s[k] = t[k]

\* C23: each Emit of E invokes exactly the handlers registered for E and not
\* unsubscribed at its snapshot, each exactly once: its snapshot holds every
\* handler whose Subscribe for E had returned and whose Unsubscribe had not
\* begun, none whose Unsubscribe had returned and none of another event, no
\* handler twice; the handlers entered are a beginning of the snapshot, and the
\* whole of it once Emit has returned.
EmitInvokesSnapshot ==
  \A n \in DOMAIN seen.emits :
    LET r == seen.emits[n] IN
      /\ r.must \subseteq Seq2Set(r.snap)
      /\ Seq2Set(r.snap) \cap r.mustnot = {}
      /\ Cardinality(Seq2Set(r.snap)) = Len(r.snap)
      /\ IsPrefix(r.entered, r.snap)
      /\ r.done => r.entered = r.snap

\* An Emit that has returned invoked H1 and left out H2, whose Unsubscribe had
\* returned before the snapshot.
EmitAfterUnsubscribe ==
  \E n \in DOMAIN seen.emits :
    /\ seen.emits[n].done
    /\ seen.emits[n].entered = <<"H1">>
    /\ "H2" \in seen.emits[n].mustnot \cap seen.unsubscribed
    /\ seen.handles["H2"][1] = "E"

\* C24: a handler subscribed by a handler running under Emit(e), for the same
\* event, is not invoked by that Emit, whose snapshot was taken before, and is
\* invoked by the next Emit(e): every Emit that begins after that one has
\* returned has it in its snapshot, unless it was unsubscribed, and has entered
\* it by the time it returns.
ReentrantSubscribeSeenNextEmit ==
  \A h \in DOMAIN seen.within :
    LET n == seen.within[h] IN
      /\ h \notin Seq2Set(seen.emits[n].snap)
      /\ h \notin Seq2Set(seen.emits[n].entered)
      /\ \A m \in DOMAIN seen.emits :
           (n \in seen.emits[m].prior /\ h \notin seen.emits[m].mustnot
              /\ h \notin seen.unsubscribing) =>
             /\ h \in Seq2Set(seen.emits[m].snap)
             /\ seen.emits[m].done => h \in Seq2Set(seen.emits[m].entered)

\* H1, running under the first Emit, subscribed H2; that Emit invoked H1 alone
\* and the second Emit invoked both.
SecondEmitInvokesNewHandler ==
  /\ DOMAIN seen.within = {"H2"}
  /\ Len(seen.emits) = 2
  /\ seen.within["H2"] = 1
  /\ seen.emits[1].done /\ seen.emits[1].entered = <<"H1">>
  /\ seen.emits[2].done /\ Seq2Set(seen.emits[2].entered) = {"H1", "H2"}

\* The handlers of emit n that its loop has yet to call.
Ahead(n) ==
  {f[2] : f \in {g \in UNION {FramesOf(th) : th \in Threads} :
                   g[1] = "handler" /\ g[5] = n}}

Thrown == {StdException, OtherException}

\* The same callers, with handlers that may throw anything.
BusThrowNext ==
  \/ \E th \in Threads : SubscribeStep(th)
  \/ \E th \in Threads : UnsubscribeStep(th)
  \/ \E th \in Threads : EmitStep(th)
  \/ \E th \in Threads, x \in Thrown : HandlerThrows(th, x)
  \/ \E th \in Threads, h \in Handlers : HandlerSubscribes(th, h)
  \/ \E u \in Users, h \in Handlers, e \in Events : UserSubscribe(u, h, e)
  \/ \E u \in Users, c \in Closures : UserUnsubscribe(u, c)
  \/ \E u \in Users : UserEmit(u, "E")

BusThrowSpec == BusInit /\ [][BusThrowNext]_vars

\* C25: synchronous Emit never fails its caller: whatever a handler throws is
\* swallowed, no Emit is left by an exception, and an Emit that is over has
\* entered every handler of its snapshot.
EmitNeverFails ==
  \A n \in DOMAIN seen.emits :
    /\ ~seen.emits[n].failed
    /\ ~(\E th \in Threads : \E f \in FramesOf(th) :
           f[1] = "Emit_return" /\ f[5] = n) =>
         seen.emits[n].entered = seen.emits[n].snap

----------------------------------------------------------------------------
(* EventScope: subscriptions tied to the life of one object; EmitAsync *)

\* The closures held in the registry of the bus.
InRegistry ==
  UNION {{bus.event_handlers_[e][id] : id \in DOMAIN bus.event_handlers_[e]} :
           e \in DOMAIN bus.event_handlers_}

\* An EventHandle is destroyed: the class declares no destructor, so its three
\* fields go away and the registry m of the bus is left as it is.
DestroyHandle(m, handle) == m

\* EventBus::EmitAsync: the lock.
EmitAsyncLock(th) ==
  /\ At(th, "EmitAsync")
  /\ LockHandlers(th, "EmitAsync_snapshot")

\* EventBus::EmitAsync: copy the handlers of the event, unlock; one
\* pool_.Enqueue per copied handler is left to run.
EmitAsyncSnapshot(th) ==
  /\ At(th, "EmitAsync_snapshot")
  /\ \E snap \in Orderings(Inner(Top(th)[3])) :
       Continue(th, [k \in DOMAIN snap |-> Fr("Enqueue", snap[k], Top(th)[3], 0, 0)])
  /\ bus' = [bus EXCEPT !.handlers_mutex_ = Free]
  /\ UNCHANGED <<offBus, tasks, calls, tokenState, scope, seen, history>>

\* pool_.Enqueue([handler, event_copy]() { ... }): the job joins the queue.
EnqueueHandler(th) ==
  /\ At(th, "Enqueue")
  /\ tasks' = Append(tasks, Tk(th))
  /\ Continue(th, <<>>)
  /\ UNCHANGED <<offBus, calls, tokenState, busState, history>>

\* What is known of a handler job when a worker starts it.
JobRecord(c) ==
  [closure |-> c, cancelled |-> is_cancelled_, skipped |-> FALSE,
   entered |-> FALSE, completed |-> FALSE]

\* Worker loop: pop the front job, here a handler job of EmitAsync, and run it.
WorkerTakeHandler(w) ==
  /\ FirstIdle(w, Workers \ escaped)
  /\ tasks # <<>>
  /\ Head(tasks) \in Closures
  /\ seen' = [seen EXCEPT !.jobs = Append(@, JobRecord(Head(tasks)))]
  /\ stack' = [stack EXCEPT ![w] =
                 <<Fr("handler", Head(tasks), "E", Len(seen.jobs) + 1, 0)>>]
  /\ tasks' = Tail(tasks)
  /\ UNCHANGED <<offBus, calls, tokenState, bus, scope, history>>

\* EventScope::Subscribe / SubscribeAsync: handles_.push_back(std::move(handle))
\* under handles_mutex_.
ScopePush(th) ==
  /\ At(th, "handles_push")
  /\ scope.handles_mutex_ = Free
  /\ scope' = [scope EXCEPT !.handles_ = Append(@, seen.handles[Tk(th)])]
  /\ Continue(th, <<>>)
  /\ UNCHANGED <<offBus, tasks, calls, tokenState, bus, seen, history>>

\* ~EventScope, after token_->Cancel(): lock_guard(handles_mutex_).
ScopeLock(th) ==
  /\ At(th, "handles_lock")
  /\ scope.handles_mutex_ = Free
  /\ scope' = [scope EXCEPT !.handles_mutex_ = th]
  /\ Continue(th, <<F0("handles_clear", NoTask)>>)
  /\ UNCHANGED <<offBus, tasks, calls, tokenState, bus, seen, history>>

RECURSIVE DestroyHandles(_, _)
\* handles_.clear(): every EventHandle of the vector is destroyed.
DestroyHandles(m, hs) ==
  IF hs = <<>> THEN m ELSE DestroyHandles(DestroyHandle(m, Head(hs)), Tail(hs))

\* ~EventScope: handles_.clear(), the lock is released, the destructor returns.
ScopeClear(th) ==
  /\ At(th, "handles_clear")
  /\ bus' = [bus EXCEPT !.event_handlers_ = DestroyHandles(@, scope.handles_)]
  /\ scope' = [scope EXCEPT !.handles_ = <<>>, !.handles_mutex_ = Free,
                            !.life = "destroyed"]
  /\ Continue(th, <<>>)
  /\ UNCHANGED <<offBus, tasks, calls, tokenState, seen, history>>

\* No call on the scope is under way.
ScopeQuiet ==
  \A th \in Threads : \A f \in FramesOf(th) : f[1] # "handles_push"

\* scope.Subscribe<E>(bus, h) by a caller: the handler is registered as it is.
UserScopeSubscribe(u, h, e) ==
  /\ Caller(u)
  /\ scope.life = "alive"
  /\ h = NextFresh(Handlers)
  /\ calls < MaxCalls
  /\ calls' = calls + 1
  /\ seen' = [seen EXCEPT !.through = @ \cup {h}]
  /\ stack' = [stack EXCEPT ![u] = <<Fr("Subscribe", h, e, 0, 0),
                                     Fr("handles_push", h, e, 0, 0)>>]
  /\ UNCHANGED <<offBus, tasks, tokenState, bus, scope, history>>

\* scope.SubscribeAsync<E>(bus, h) by a caller: safe_handler around h is what
\* is registered.
UserScopeSubscribeAsync(u, h, e) ==
  /\ Caller(u)
  /\ scope.life = "alive"
  /\ Safe(h) = NextFresh(SafeHandlers)
  /\ calls < MaxCalls
  /\ calls' = calls + 1
  /\ seen' = [seen EXCEPT !.through = @ \cup {Safe(h)}]
  /\ stack' = [stack EXCEPT ![u] = <<Fr("Subscribe", Safe(h), e, 0, 0),
                                     Fr("handles_push", Safe(h), e, 0, 0)>>]
  /\ UNCHANGED <<offBus, tasks, tokenState, bus, scope, history>>

\* The scope goes out of scope on the thread of u: ~EventScope runs.
UserDestroyScope(u) ==
  /\ Caller(u)
  /\ scope.life = "alive"
  /\ ScopeQuiet
  /\ calls < MaxCalls
  /\ calls' = calls + 1
  /\ scope' = [scope EXCEPT !.life = "destroying"]
  /\ stack' = [stack EXCEPT ![u] = <<F0("Cancel", NoTask),
                                     F0("handles_lock", NoTask)>>]
  /\ UNCHANGED <<offBus, tasks, tokenState, bus, seen, history>>

\* The EventHandle that bus->Subscribe returned for closure c goes out of scope
\* in the caller, Unsubscribe not having been called on it.
UserDropHandle(u, c) ==
  /\ Caller(u)
  /\ c \in DOMAIN seen.handles
  /\ c \notin seen.unsubscribing \cup seen.dropped \cup seen.through
  /\ calls < MaxCalls
  /\ calls' = calls + 1
  /\ bus' = [bus EXCEPT !.event_handlers_ = DestroyHandle(@, seen.handles[c])]
  /\ seen' = [seen EXCEPT !.dropped = @ \cup {c}]
  /\ UNCHANGED <<offBus, tasks, stack, tokenState, scope, history>>

\* bus->EmitAsync(E{...}) by a caller.
UserEmitAsync(u, e) ==
  /\ Caller(u)
  /\ calls < MaxCalls
  /\ calls' = calls + 1
  /\ stack' = [stack EXCEPT ![u] = <<Fr("EmitAsync", NoTask, e, 0, 0)>>]
  /\ UNCHANGED <<offBus, tasks, tokenState, busState, history>>

EmitAsyncStep(th) ==
  \/ EmitAsyncLock(th)
  \/ EmitAsyncSnapshot(th)
  \/ EnqueueHandler(th)

ScopeStep(th) ==
  \/ ScopePush(th)
  \/ ScopeLock(th)
  \/ ScopeClear(th)

\* scope.Cancel() by a caller: token_->Cancel().
UserScopeCancel(u) ==
  /\ Caller(u)
  /\ scope.life = "alive"
  /\ UserCancel(u)

\* The handlers subscribed with SubscribeAsync before the calls looked at.
ScopeSubscribed ==
  {<<>>,
   <<<<"S1", "E", "scope">>>>,
   <<<<"S1", "E", "scope">>, <<"S2", "E", "scope">>>>}

ScopeInit ==
  \E pre \in ScopeSubscribed : InitBus(<<>>, {}, [t \in AllTasks |-> Work], pre)

\* Callers subscribe async handlers through the scope, emit E to the pool, and
\* cancel or destroy the scope; the workers run the handler jobs.
ScopeNext ==
  \/ \E th \in Threads : SubscribeStep(th)
  \/ \E th \in Threads : EmitAsyncStep(th)
  \/ \E th \in Threads : ScopeStep(th)
  \/ \E th \in Threads : CancelStep(th)
  \/ \E th \in Threads : HandlerCall(th)
  \/ \E th \in Threads : HandlerReturns(th)
  \/ \E th \in Threads : HandlerThrows(th, StdException)
  \/ \E w \in Workers : WorkerTakeHandler(w)
  \/ \E u \in Users, h \in Handlers : UserScopeSubscribeAsync(u, h, "E")
  \/ \E u \in Users : UserScopeCancel(u)
  \/ \E u \in Users : UserDestroyScope(u)
  \/ \E u \in Users : UserEmitAsync(u, "E")

ScopeSpec == ScopeInit /\ [][ScopeNext]_vars

\* What was subscribed before the calls looked at, through the scope or on the
\* bus directly.
HandleSubscribed ==
  {<<>>,
   <<<<"H1", "E", "bus">>>>,
   <<<<"H1", "E", "scope">>>>,
   <<<<"H1", "E", "scope">>, <<"S1", "E", "scope">>>>}

HandleInit ==
  \E pre \in HandleSubscribed : InitBus(<<>>, {}, [t \in AllTasks |-> Work], pre)

\* Callers subscribe through the scope, emit E, destroy the scope and let
\* handles go out of scope.
HandleNext ==
  \/ \E th \in Threads : SubscribeStep(th)
  \/ \E th \in Threads : EmitStep(th)
  \/ \E th \in Threads : ScopeStep(th)
  \/ \E th \in Threads : CancelStep(th)
  \/ \E u \in Users, h \in Handlers : UserScopeSubscribe(u, h, "E")
  \/ \E u \in Users, h \in Handlers : UserScopeSubscribeAsync(u, h, "E")
  \/ \E u \in Users : UserDestroyScope(u)
  \/ \E u \in Users, c \in Closures : UserDropHandle(u, c)
  \/ \E u \in Users : UserEmit(u, "E")

HandleSpec == HandleInit /\ [][HandleNext]_vars

\* Job j of the pool is on a worker's thread.
JobRunning(j) ==
  \E th \in Threads : \E f \in FramesOf(th) :
    f[1] \in {"handler", "user_code"} /\ f[4] = j

\* C26: a pool job of a handler registered with SubscribeAsync that starts when
\* the scope's token is already cancelled (by Cancel or by the destructor) never
\* enters the user's handler and returns; no job is cut short before the token
\* is cancelled, and a job that entered the user's handler is finished by the
\* handler itself, whatever happens to the token meanwhile.
CancelledJobSkipsUserCode ==
  \A j \in DOMAIN seen.jobs :
    LET r == seen.jobs[j] IN
      r.closure \in SafeHandlers =>
        /\ r.cancelled => ~r.entered /\ (~JobRunning(j) => r.skipped)
        /\ r.skipped => IsCancelled(is_cancelled_) /\ ~r.entered
        /\ ~JobRunning(j) => r.skipped \/ (r.entered /\ r.completed)

\* Of two jobs one began before the scope was destroyed and ran through, the
\* other began afterwards and was skipped.
JobSkippedAfterDestruction ==
  /\ scope.life = "destroyed"
  /\ \E j, k \in DOMAIN seen.jobs :
       /\ ~seen.jobs[j].cancelled /\ seen.jobs[j].completed
       /\ seen.jobs[k].cancelled /\ seen.jobs[k].skipped /\ ~JobRunning(k)

\* C27: once ~EventScope has returned, no handler registered through the scope
\* begins to run user code.
NoHandlerAfterScope == seen.late = {}

\* C28: ~EventScope cancels the token before any subscription of the scope
\* leaves the bus, and when it has returned none of them is left in the
\* registry.
ScopeDestructionUnsubscribes ==
  /\ scope.life = "destroyed" => seen.through \cap InRegistry = {}
  /\ \A c \in seen.through \cap DOMAIN seen.handles :
       c \notin InRegistry => IsCancelled(is_cancelled_)

\* C29: a handle destroyed without Unsubscribe takes its handler off the bus:
\* no Emit that begins afterwards invokes it.
DroppedHandleUnsubscribes ==
  /\ seen.dropped \cap InRegistry = {}
  /\ \A n \in DOMAIN seen.emits : \A k \in DOMAIN seen.emits[n].entered :
       seen.emits[n].entered[k] \notin seen.emits[n].gone

----------------------------------------------------------------------------
(* Handler ids: subscriptions from several threads, then one Emit *)

\* The targeted registry of E under subject 1, kept next to the plain registry
\* under a key of its own.
TargetedE == "E@1"

\* bus->SubscribeTargeted<E>(SubjectID(1), h) by a caller: the id comes from the
\* counter of the bus, the handler goes into the targeted registry.
UserSubscribeTargeted(u, h) ==
  /\ Caller(u)
  /\ h = NextFresh(Handlers)
  /\ calls < MaxCalls
  /\ calls' = calls + 1
  /\ seen' = [seen EXCEPT !.overlapped = @ \/ OtherSubscribing(u)]
  /\ stack' = [stack EXCEPT ![u] = <<Fr("Subscribe", h, TargetedE, 0, 0)>>]
  /\ UNCHANGED <<offBus, tasks, tokenState, bus, scope, history>>

\* The Emit calls the main thread makes after the subscribing threads.
MaxEmits == 1

\* The subscribing threads are joined; then bus->Emit(E{...}).
JoinedEmit(u) ==
  /\ Caller(u)
  /\ \A th \in Threads : Idle(th)
  /\ Len(seen.emits) < MaxEmits
  /\ stack' = [stack EXCEPT ![u] = <<Fr("Emit", NoTask, "E", 0, 0)>>]
  /\ UNCHANGED <<offBus, tasks, calls, tokenState, busState, history>>

\* Threads subscribe and unsubscribe side by side; the main thread then emits.
ConcurrentNext ==
  \/ \E th \in Threads : SubscribeStep(th)
  \/ \E th \in Threads : UnsubscribeStep(th)
  \/ \E th \in Threads : EmitStep(th)
  \/ \E u \in Users, h \in Handlers, e \in Events : UserSubscribe(u, h, e)
  \/ \E u \in Users, h \in Handlers : UserSubscribeTargeted(u, h)
  \/ \E u \in Users, c \in Closures : UserUnsubscribe(u, c)
  \/ \E u \in Users : JoinedEmit(u)

ConcurrentSpec == BusInit /\ [][ConcurrentNext]_vars

\* C30: the ids a bus hands out, in the order it hands them out, are strictly
\* increasing, hence never repeated, whatever Subscribe, SubscribeTargeted and
\* Unsubscribe calls run and however they interleave; every registration whose
\* Unsubscribe was not called is in the registry under its own id; and an Emit
\* invokes every handler registered for its event, and not being unsubscribed,
\* when it begins, the handlers the subscribing threads registered among them.
HandlerIdsStrictlyIncrease ==
  /\ \A i, j \in DOMAIN seen.ids : i < j => seen.ids[i] < seen.ids[j]
  /\ \A k \in DOMAIN seen.ids : seen.ids[k] < bus.next_handler_id_
  /\ \A c \in DOMAIN seen.handles \ seen.unsubscribing :
       LET e == seen.handles[c][1]
           id == seen.handles[c][2]
       IN /\ e \in DOMAIN bus.event_handlers_
          /\ id \in DOMAIN bus.event_handlers_[e]
          /\ bus.event_handlers_[e][id] = c
  /\ \A n \in DOMAIN seen.emits :
       seen.emits[n].done =>
         \A c \in seen.emits[n].must :
           \E k \in DOMAIN seen.emits[n].entered : seen.emits[n].entered[k] = c

\* Two threads subscribed for E, the second beginning before the first had
\* returned; they were given the last two ids, and the Emit after them has
\* invoked both handlers.
ConcurrentSubscribersInvoked ==
  /\ seen.overlapped
  /\ \E n \in DOMAIN seen.emits :
       /\ seen.emits[n].done
       /\ \E c, d \in DOMAIN seen.handles :
            /\ seen.handles[c][2] = bus.next_handler_id_ - 2
            /\ seen.handles[d][2] = bus.next_handler_id_ - 1
            /\ \E i, j \in DOMAIN seen.emits[n].entered :
                 seen.emits[n].entered[i] = c /\ seen.emits[n].entered[j] = d

----------------------------------------------------------------------------
(* EventBus::PublishAsync: one task per handler, gathered in one aggregate *)

\* The callable of a handler task: it throws the cancellation error when the
\* token is cancelled on entry, and otherwise invokes the handler and lets what
\* the handler throws propagate.  This is the callable WithCancellation builds.
HandlerTaskFn == WithCancellationFn

\* The tasks made for the handlers of one publish, in snapshot order.
HandlerTasks == <<"A", "B", "C">>

\* PublishAsync on a cancelled token: the task returned completes by throwing
\* the cancellation error.
PublishCancelled(th) ==
  /\ At(th, "PublishAsync")
  /\ IsCancelled(is_cancelled_)
  /\ live' = live \cup {Aggregate}
  /\ callback_' = [callback_ EXCEPT ![Aggregate] = ThrowCancelled]
  /\ Continue(th, <<F0("TrySchedule", Aggregate)>>)
  /\ UNCHANGED <<taskState, wait_mutex_, tasks, calls, awaited, crashed,
                 awaiter_void, worked, tokenState, guardState, busState, history>>

\* PublishAsync: the token is not cancelled; the lock for the snapshot.
PublishLock(th) ==
  /\ At(th, "PublishAsync")
  /\ ~IsCancelled(is_cancelled_)
  /\ LockHandlers(th, "PublishAsync_snapshot")

\* PublishAsync: snapshot the handlers of the event, unlock, and make one task
\* per handler; WhenAllWithCancellation over these tasks is what is left.
PublishSnapshot(th) ==
  /\ At(th, "PublishAsync_snapshot")
  /\ \E snap \in Orderings(Inner(Top(th)[3])) :
       /\ seen' = [seen EXCEPT !.published = snap]
       /\ live' = live \cup {HandlerTasks[k] : k \in DOMAIN snap}
       /\ callback_' = [t \in AllTasks |->
                          IF t \in {HandlerTasks[k] : k \in DOMAIN snap}
                            THEN HandlerTaskFn ELSE callback_[t]]
  /\ bus' = [bus EXCEPT !.handlers_mutex_ = Free]
  /\ Continue(th, <<F0("WhenAllWithCancellation", NoTask)>>)
  /\ UNCHANGED <<taskState, wait_mutex_, tasks, calls, awaited, crashed,
                 awaiter_void, worked, tokenState, guardState, scope, history>>

\* PublishAsync: return WhenAllWithCancellation(pool_, handler tasks, token).
PublishGather(th) ==
  /\ At(th, "WhenAllWithCancellation")
  /\ GatherUnlessCancelled(th)
  /\ UNCHANGED <<taskState, wait_mutex_, tasks, calls, awaited, crashed,
                 awaiter_void, worked, tokenState, guardState, busState, history>>

\* bus->PublishAsync(E{...}, token) by a caller, once.
UserPublishAsync(u, e) ==
  /\ Caller(u)
  /\ Aggregate \notin live
  /\ \A th \in Threads : \A f \in FramesOf(th) : f[1] # "PublishAsync"
       /\ f[1] # "PublishAsync_snapshot" /\ f[1] # "WhenAllWithCancellation"
  /\ calls < MaxCalls
  /\ calls' = calls + 1
  /\ stack' = [stack EXCEPT ![u] = <<Fr("PublishAsync", NoTask, e, 0, 0)>>]
  /\ UNCHANGED <<offBus, tasks, tokenState, busState, history>>

PublishStep(th) ==
  \/ PublishCancelled(th)
  \/ PublishLock(th)
  \/ PublishSnapshot(th)
  \/ PublishGather(th)

\* The handlers subscribed for E before the publish.
PublishSubscribed ==
  {<<>>,
   <<<<"H1", "E", "bus">>>>,
   <<<<"H1", "E", "bus">>, <<"H2", "E", "bus">>>>,
   <<<<"H1", "E", "bus">>, <<"H2", "F", "bus">>>>}

PublishInit ==
  \E pre \in PublishSubscribed : InitBus(<<>>, {}, [t \in AllTasks |-> Work], pre)

\* A caller publishes E; the token may be cancelled at any time; the pool runs
\* the handler tasks and the aggregate.
PublishNext ==
  \/ Run
  \/ \E th \in Threads : WhenAllStep(th)
  \/ \E th \in Threads : CancelStep(th)
  \/ \E th \in Threads : PublishStep(th)
  \/ \E u \in Users : UserCancel(u)
  \/ \E u \in Users : UserPublishAsync(u, "E")

PublishSpec == PublishInit /\ [][PublishNext]_vars

UserAwaitPublished(u) ==
  /\ Caller(u)
  /\ \A v \in Users : Idle(v)
  /\ UserAwait(u, Aggregate)
  /\ awaiter_void'

\* The publisher also awaits the task it was given.
PublishAwaitNext ==
  \/ PublishNext
  \/ \E th \in Threads : AwaitReady(th)
  \/ \E th \in Threads : AwaitIsDone(th)
  \/ \E th \in Threads : ResumeCoroutine(th)
  \/ \E th \in Threads : AwaitResume(th)
  \/ \E u \in Users : UserAwaitPublished(u)

PublishAwaitSpec == PublishInit /\ [][PublishAwaitNext]_vars

\* The handler tasks whose handler threw.
ThrowingHandlers == {t \in Seq2Set(Inputs) : is_done_[t] /\ Threw(t)}

\* C22: when a handler of a PublishAsync throws R and the token is never
\* cancelled, every snapshotted handler is still executed, the task returned
\* stores the exception of a handler that threw, and awaiting that task raises
\* it: once nothing is left to run the awaiting coroutine has been given the
\* exception.
PublishAwaitRaisesHandlerException ==
  (Aggregate \in live /\ is_done_[Aggregate] /\ ThrowingHandlers # {}
     /\ ~IsCancelled(is_cancelled_)) =>
    /\ \A k \in DOMAIN Inputs : invoked[Inputs[k]] = 1
    /\ exception_[Aggregate] \in {Raised(t) : t \in ThrowingHandlers}
    /\ (awaited = Aggregate /\ Quiescent) =>
         got[Aggregate] = <<"throws", exception_[Aggregate]>>

----------------------------------------------------------------------------
(* Subscribe and Unsubscribe as a round trip; the handle's own Unsubscribe *)

\* th is in EventBus::Unsubscribe through the shared_ptr its handle locked.
HoldingBus(th) ==
  \E f \in FramesOf(th) : f[1] \in {"Unsubscribe", "Unsubscribe_erase"}

\* The bus is destroyed: the program has reset its shared_ptr and no handle
\* holds a locked one.
Expired == ~bus.owned /\ \A th \in Threads : ~HoldingBus(th)

\* Mutant: the handle reaches for the bus whether or not it is alive.
HandleAlwaysLocksBus == TRUE

\* if (auto bus = bus_.lock()): the weak_ptr of the handle still gives a bus.
HandleLocksBus == ~Expired

\* EventHandle::Unsubscribe: return when unsubscribed_ is set; with a bus still
\* alive go through EventBus::Unsubscribe (UnsubscribeTargeted erases from the
\* targeted registry in the same way); the flag is set last.
HandleUnsubscribe(th) ==
  /\ At(th, "handle_Unsubscribe")
  /\ LET c == Tk(th)
         flag == Fr("handle_flag", c, Top(th)[3], 0, 0)
     IN IF c \in seen.unsubscribed_
          THEN Continue(th, <<>>) /\ UNCHANGED seen
          ELSE IF HandleLocksBus
            THEN /\ Continue(th, <<F0("Unsubscribe", c), flag>>)
                 /\ seen' = [seen EXCEPT !.unsubscribing = @ \cup {c}]
            ELSE Continue(th, <<flag>>) /\ UNCHANGED seen
  /\ UNCHANGED <<offBus, tasks, calls, tokenState, bus, scope, history>>

\* EventHandle::Unsubscribe: unsubscribed_ = true.
HandleFlag(th) ==
  /\ At(th, "handle_flag")
  /\ seen' = [seen EXCEPT !.unsubscribed_ = @ \cup {Tk(th)}]
  /\ Continue(th, <<>>)
  /\ UNCHANGED <<offBus, tasks, calls, tokenState, bus, scope, history>>

HandleStep(th) ==
  \/ HandleUnsubscribe(th)
  \/ HandleFlag(th)

\* A thread is inside a call that changes the registry.
ChangingRegistry ==
  \E th \in Threads : \E f \in FramesOf(th) :
    f[1] \in {"Subscribe", "Subscribe_insert", "handle_Unsubscribe",
              "Unsubscribe", "Unsubscribe_erase", "handle_flag"}

\* A caller is between its Subscribe and the return of its Unsubscribe.
InRoundTrip ==
  \E th \in Threads : \E f \in FramesOf(th) : f[1] = "round_trip"

\* auto handle = bus->Subscribe<E>(h); handle.Unsubscribe(); by a caller, no
\* other call that changes the registry running meanwhile.  The frame beneath
\* the two calls keeps the registry and the counter the caller found.
UserRoundTrip(u, h, e) ==
  /\ Caller(u)
  /\ h = NextFresh(Handlers)
  /\ ~ChangingRegistry /\ ~InRoundTrip
  /\ calls < MaxCalls
  /\ calls' = calls + 1
  /\ stack' = [stack EXCEPT ![u] =
       <<Fr("Subscribe", h, e, 0, 0), Fr("handle_Unsubscribe", h, e, 0, 0),
         Fr("round_trip", h, <<bus.event_handlers_, bus.next_handler_id_>>, 0, 0)>>]
  /\ UNCHANGED <<offBus, tasks, tokenState, busState, history>>

\* The statement after the two calls.
RoundTripReturns(th) ==
  /\ At(th, "round_trip")
  /\ Continue(th, <<>>)
  /\ UNCHANGED <<offBus, tasks, calls, tokenState, busState, history>>

\* Round trips, plain and targeted, among Subscribe, Unsubscribe and Emit calls;
\* an Emit may run beside a round trip, a Subscribe or Unsubscribe may not.
RoundTripNext ==
  \/ \E th \in Threads : SubscribeStep(th)
  \/ \E th \in Threads : UnsubscribeStep(th)
  \/ \E th \in Threads : HandleStep(th)
  \/ \E th \in Threads : EmitStep(th)
  \/ \E th \in Threads : RoundTripReturns(th)
  \/ \E u \in Users, h \in Handlers, e \in Events \cup {TargetedE} :
       UserRoundTrip(u, h, e)
  \/ \E u \in Users, h \in Handlers, e \in Events :
       ~InRoundTrip /\ UserSubscribe(u, h, e)
  \/ \E u \in Users, c \in Closures : ~InRoundTrip /\ UserUnsubscribe(u, c)
  \/ \E u \in Users : UserEmit(u, "E")

RoundTripSpec == BusInit /\ [][RoundTripNext]_vars

\* No inner map of the registry is empty.
NoEmptyInnerMap ==
  \A e \in DOMAIN bus.event_handlers_ : DOMAIN bus.event_handlers_[e] # {}

----------------------------------------------------------------------------
(* Unsubscribe called again, and called after the bus is gone *)

\* th is inside handle.Unsubscribe().
InHandleCall(th) ==
  \E f \in FramesOf(th) : f[1] \in {"handle_Unsubscribe", "handle_flag"}

\* handle.Unsubscribe() by the caller holding the handle of closure c, whether
\* or not it was called before; a handle is used by one thread at a time.
UserHandleUnsubscribe(u, c) ==
  /\ Caller(u)
  /\ c \in DOMAIN seen.handles
  /\ \A th \in Threads : \A f \in FramesOf(th) : f[2] # c
  /\ calls < MaxCalls
  /\ calls' = calls + 1
  /\ stack' = [stack EXCEPT ![u] = <<F0("handle_Unsubscribe", c)>>]
  /\ UNCHANGED <<offBus, tasks, tokenState, busState, history>>

\* bus.reset() by the program, no call made through that pointer running: the
\* bus is destroyed when the last locked pointer of a handle lets go.
UserResetBus(u) ==
  /\ Caller(u)
  /\ bus.owned
  /\ \A th \in Threads : Busy(th) => InHandleCall(th)
  /\ bus' = [bus EXCEPT !.owned = FALSE]
  /\ UNCHANGED <<offBus, tasks, calls, stack, tokenState, scope, seen, history>>

\* Handles are unsubscribed, again and again, before and after the bus is
\* reset; while the program has the bus it subscribes and emits.
IdempotentNext ==
  \/ \E th \in Threads : SubscribeStep(th)
  \/ \E th \in Threads : UnsubscribeStep(th)
  \/ \E th \in Threads : HandleStep(th)
  \/ \E th \in Threads : EmitStep(th)
  \/ \E u \in Users, h \in Handlers, e \in Events :
       bus.owned /\ UserSubscribe(u, h, e)
  \/ \E u \in Users : bus.owned /\ UserEmit(u, "E")
  \/ \E u \in Users, c \in Closures : UserHandleUnsubscribe(u, c)
  \/ \E u \in Users : UserResetBus(u)

IdempotentSpec == BusInit /\ [][IdempotentNext]_vars

\* The closure whose handle th is unsubscribing.
HandleOf(th) ==
  LET f == CHOOSE g \in FramesOf(th) :
             g[1] \in {"handle_Unsubscribe", "handle_flag"}
  IN f[2]

\* A step of handle.Unsubscribe() on closure c leaves every registration of
\* another closure where it was.
KeepsOthers(c) ==
  \A e \in DOMAIN bus.event_handlers_ :
    \A id \in DOMAIN bus.event_handlers_[e] :
      bus.event_handlers_[e][id] # c =>
        /\ e \in DOMAIN bus'.event_handlers_
        /\ id \in DOMAIN bus'.event_handlers_[e]
        /\ bus'.event_handlers_[e][id] = bus.event_handlers_[e][id]

\* C32: Unsubscribe is idempotent and local.  No step of a handle.Unsubscribe()
\* removes or changes the registration of another subscription; no step of a
\* call made after an Unsubscribe of the same handle has returned changes the
\* registry or the counter; and no step of a call made after the bus was
\* destroyed touches the bus at all, the call returning with the flag set.
UnsubscribeIdempotentLocal ==
  [][\A th \in Threads :
       (InHandleCall(th) /\ stack'[th] # stack[th]) =>
         LET c == HandleOf(th) IN
           /\ KeepsOthers(c)
           /\ c \in seen.unsubscribed_ =>
                /\ bus'.event_handlers_ = bus.event_handlers_
                /\ bus'.next_handler_id_ = bus.next_handler_id_
                /\ seen' = seen
           /\ Expired => bus' = bus /\ ~HoldingBus(th)']_vars

\* H1 was unsubscribed, and unsubscribed again, the bus being reset on the way;
\* H2, subscribed for the same event, was left alone.
UnsubscribedTwice ==
  /\ calls = 2
  /\ \A th \in Threads : Idle(th)
  /\ ~bus.owned
  /\ seen.emits = <<>>
  /\ DOMAIN seen.handles = {"H1", "H2"}
  /\ seen.unsubscribed_ = {"H1"} /\ seen.unsubscribed = {"H1"}
  /\ bus.event_handlers_ = Put(<<>>, "E", Put(<<>>, 1, "H2"))

----------------------------------------------------------------------------
(* Targeted dispatch *)

\* The keys of the targeted registry: event type and subject.
TargetedKeys == {"E@1", "E@2", "F@1"}

\* The event type of a key, plain or targeted.
KeyEvent(k) == IF k \in {"F", "F@1"} THEN "F" ELSE "E"

\* The subject of a key; 0 for a plain one.
KeySubject(k) == CASE k \in {"E@1", "F@1"} -> 1 [] k = "E@2" -> 2 [] OTHER -> 0

\* bus->EmitTargeted(E{...}, SubjectID(s)) by a caller: Emit over the handlers
\* the targeted registry holds for the event type and the subject.
UserEmitTargeted(u, k) ==
  /\ Caller(u)
  /\ calls < MaxCalls
  /\ calls' = calls + 1
  /\ stack' = [stack EXCEPT ![u] = <<Fr("Emit", NoTask, k, 0, 0)>>]
  /\ UNCHANGED <<offBus, tasks, tokenState, busState, history>>

\* What SubscribeTargeted, and Subscribe, calls had registered before.
TargetedSubscribed ==
  {<<<<"H1", "E@1", "bus">>>>,
   <<<<"H1", "E@1", "bus">>, <<"H2", "E@2", "bus">>>>,
   <<<<"H1", "E@1", "bus">>, <<"H2", "F@1", "bus">>>>,
   <<<<"H1", "E@1", "bus">>, <<"H2", "E", "bus">>>>}

TargetedInit ==
  \E pre \in TargetedSubscribed :
    InitBus(<<>>, {}, [t \in AllTasks |-> Work], pre)

\* Targeted and plain emits, of both event types and to both subjects, among
\* targeted subscriptions and unsubscriptions.
TargetedNext ==
  \/ \E th \in Threads : SubscribeStep(th)
  \/ \E th \in Threads : UnsubscribeStep(th)
  \/ \E th \in Threads : EmitStep(th)
  \/ \E u \in Users, h \in Handlers : UserSubscribeTargeted(u, h)
  \/ \E u \in Users, c \in Closures : UserUnsubscribe(u, c)
  \/ \E u \in Users, k \in TargetedKeys : UserEmitTargeted(u, k)
  \/ \E u \in Users, e \in Events : UserEmit(u, e)

TargetedSpec == TargetedInit /\ [][TargetedNext]_vars

\* C33: a handler subscribed for an event type under a subject is invoked by a
\* targeted emit of that event type to that subject: every such emit begun
\* after the subscription returned and before its Unsubscribe began has entered
\* the handler by the time it returns.  It is entered by no emit of another
\* event type and by no targeted emit to another subject.
TargetedDeliveryByKey ==
  \A n \in DOMAIN seen.emits :
    LET r == seen.emits[n] IN
      /\ \A c \in DOMAIN seen.handles :
           LET k == seen.handles[c][1] IN
             (k \in TargetedKeys /\ c \in Seq2Set(r.entered)) =>
               /\ KeyEvent(r.event) = KeyEvent(k)
               /\ r.event \in TargetedKeys => KeySubject(r.event) = KeySubject(k)
      /\ (r.event \in TargetedKeys /\ r.done) => r.must \subseteq Seq2Set(r.entered)

\* H1 is subscribed for E under subject 1 and H2 for E under subject 2; a
\* targeted emit of E to subject 1 has invoked H1 alone and one to subject 2 has
\* invoked H2 alone.
TargetedEmitsToTwoSubjects ==
  /\ "H2" \in DOMAIN seen.handles /\ seen.handles["H2"][1] = "E@2"
  /\ \E n, m \in DOMAIN seen.emits :
       /\ seen.emits[n].done /\ seen.emits[n].event = "E@1"
       /\ seen.emits[n].entered = <<"H1">>
       /\ seen.emits[m].done /\ seen.emits[m].event = "E@2"
       /\ seen.emits[m].entered = <<"H2">>

----------------------------------------------------------------------------
(* EmitAsync with a cancellation token *)

\* The pool jobs EmitAsync(event, token) makes, one name per handler.
TokenJobs == {"J1", "J2", "J3"}

\* The job made for handler h.
TokenJob(h) == CASE h = "H1" -> "J1" [] h = "H2" -> "J2" [] OTHER -> "J3"

\* The handler job j was made for.
JobHandler(j) == CASE j = "J1" -> "H1" [] j = "J2" -> "H2" [] OTHER -> "H3"

\* EmitAsync(event, token): if (token && token->IsCancelled()) return;
EmitAsyncTokenCheck(th) ==
  /\ At(th, "EmitAsync_token")
  /\ IF IsCancelled(is_cancelled_) THEN Continue(th, <<>>)
     ELSE Continue(th, <<Fr("EmitAsync_token_lock", NoTask, Top(th)[3],
                            Top(th)[4], 0)>>)
  /\ UNCHANGED <<offBus, tasks, calls, tokenState, busState, history>>

\* EmitAsync(event, token): the lock.
EmitAsyncTokenLock(th) ==
  /\ At(th, "EmitAsync_token_lock")
  /\ LockHandlers(th, "EmitAsync_token_snapshot")

\* EmitAsync(event, token): copy the handlers of the event, unlock; the loop
\* over the copy is left to run.
EmitAsyncTokenSnapshot(th) ==
  /\ At(th, "EmitAsync_token_snapshot")
  /\ \E snap \in Orderings(Inner(Top(th)[3])) :
       /\ seen' = [seen EXCEPT !.emits = Append(@, EmitRecord(Top(th)[3], snap))]
       /\ Continue(th, [k \in DOMAIN snap |->
                          Fr("Enqueue_token", snap[k], Top(th)[3], Top(th)[4],
                             Len(seen.emits) + 1)])
  /\ bus' = [bus EXCEPT !.handlers_mutex_ = Free]
  /\ UNCHANGED <<offBus, tasks, calls, tokenState, scope, history>>

\* The loop: break when the token is cancelled, else pool_.Enqueue of the job
\* of the next handler.
EnqueueTokenJob(th) ==
  /\ At(th, "Enqueue_token")
  /\ IF IsCancelled(is_cancelled_)
       THEN /\ stack' = [stack EXCEPT ![th] = <<>>]
            /\ UNCHANGED tasks
       ELSE /\ tasks' = Append(tasks, TokenJob(Tk(th)))
            /\ Continue(th, <<>>)
  /\ UNCHANGED <<offBus, calls, tokenState, busState, history>>

\* Worker loop: pop the front job, here a job of EmitAsync(event, token), and
\* run it.
WorkerTakeTokenJob(w) ==
  /\ FirstIdle(w, Workers \ escaped)
  /\ tasks # <<>>
  /\ Head(tasks) \in TokenJobs
  /\ seen' = [seen EXCEPT !.jobs = Append(@, JobRecord(JobHandler(Head(tasks))))]
  /\ stack' = [stack EXCEPT ![w] =
                 <<Fr("token_job", JobHandler(Head(tasks)), "E",
                      Len(seen.jobs) + 1, 0)>>]
  /\ tasks' = Tail(tasks)
  /\ UNCHANGED <<offBus, calls, tokenState, bus, scope, history>>

\* Mutant: the job does not look at the token.
TokenJobNeverSkips(cancelled) == FALSE

\* The job: if (token && token->IsCancelled()) return;
TokenJobSkips(cancelled) == cancelled

\* The job looks at the token, then calls the handler.
TokenJobCheck(th) ==
  /\ At(th, "token_job")
  /\ IF TokenJobSkips(IsCancelled(is_cancelled_))
       THEN /\ Continue(th, <<>>)
            /\ seen' = [seen EXCEPT !.jobs = [@ EXCEPT ![Top(th)[4]].skipped = TRUE]]
       ELSE /\ Continue(th, <<Fr("handler", Tk(th), Top(th)[3], Top(th)[4], 0)>>)
            /\ UNCHANGED seen
  /\ UNCHANGED <<offBus, tasks, calls, tokenState, bus, scope, history>>

\* bus->EmitAsync(E{...}, token) by a caller; the frame keeps whether the token
\* was cancelled when the call was made.
UserEmitAsyncToken(u, e) ==
  /\ Caller(u)
  /\ calls < MaxCalls
  /\ calls' = calls + 1
  /\ stack' = [stack EXCEPT ![u] =
       <<Fr("EmitAsync_token", NoTask, e,
            IF IsCancelled(is_cancelled_) THEN 1 ELSE 0, 0)>>]
  /\ UNCHANGED <<offBus, tasks, tokenState, busState, history>>

EmitAsyncTokenStep(th) ==
  \/ EmitAsyncTokenCheck(th)
  \/ EmitAsyncTokenLock(th)
  \/ EmitAsyncTokenSnapshot(th)
  \/ EnqueueTokenJob(th)
  \/ TokenJobCheck(th)

\* Callers emit E to the pool with the token and cancel the token; the workers
\* run the jobs.
TokenEmitNext ==
  \/ \E th \in Threads : EmitAsyncTokenStep(th)
  \/ \E th \in Threads : CancelStep(th)
  \/ \E th \in Threads : HandlerCall(th)
  \/ \E th \in Threads : HandlerReturns(th)
  \/ \E w \in Workers : WorkerTakeTokenJob(w)
  \/ \E u \in Users : UserCancel(u)
  \/ \E u \in Users : UserEmitAsyncToken(u, "E")

TokenEmitSpec == BusInit /\ [][TokenEmitNext]_vars

\* The jobs that entered handler c.
Entries(c) ==
  Cardinality({j \in DOMAIN seen.jobs :
                 seen.jobs[j].closure = c /\ seen.jobs[j].entered})

\* The snapshots that hold handler c.
Snapshotted(c) ==
  Cardinality({n \in DOMAIN seen.emits : c \in Seq2Set(seen.emits[n].snap)})

\* C34: EmitAsync with a token never invokes a handler whose pool job starts
\* after the token was cancelled; a call made when the token is already
\* cancelled takes no snapshot and enqueues no job; no handler is invoked more
\* often than it was snapshotted, and when the token was never cancelled and
\* nothing is left to run every snapshotted handler was invoked exactly once
\* for each snapshot that holds it.
TokenEmitAsyncHonoursToken ==
  /\ \A j \in DOMAIN seen.jobs : seen.jobs[j].cancelled => ~seen.jobs[j].entered
  /\ \A th \in Threads : \A f \in FramesOf(th) :
       f[1] \in {"EmitAsync_token_lock", "EmitAsync_token_snapshot",
                 "Enqueue_token"} => f[4] = 0
  /\ \A c \in Handlers : Entries(c) <= Snapshotted(c)
  /\ (Quiescent /\ ~IsCancelled(is_cancelled_)) =>
       \A c \in Handlers : Entries(c) = Snapshotted(c)

\* Two handlers were snapshotted; the token was cancelled before the job of
\* one of them started: that job returned without invoking its handler, the
\* other had invoked it.
TokenJobSkippedAfterCancel ==
  /\ Quiescent
  /\ \E j, k \in DOMAIN seen.jobs :
       /\ ~seen.jobs[j].cancelled /\ seen.jobs[j].entered
       /\ seen.jobs[k].cancelled /\ seen.jobs[k].skipped

----------------------------------------------------------------------------
(* Handlers that call back into the bus *)

\* The user's handler unsubscribes itself, or the handler it has subscribed,
\* before it returns.
HandlerUnsubscribes(th, c) ==
  /\ At(th, "user_code")
  /\ Top(th)[5] # 0
  /\ c \in {Tk(th)} \cup DOMAIN seen.within
  /\ c \in DOMAIN seen.handles
  /\ c \notin seen.unsubscribing
  /\ Continue(th, <<F0("Unsubscribe", c), Top(th)>>)
  /\ seen' = [seen EXCEPT !.unsubscribing = @ \cup {c}]
  /\ UNCHANGED <<offBus, tasks, calls, tokenState, bus, scope, history>>

\* The user's handler emits the event it was called with before it returns.
HandlerEmits(th) ==
  /\ At(th, "user_code")
  /\ Top(th)[5] # 0
  /\ calls < MaxCalls
  /\ calls' = calls + 1
  /\ Continue(th, <<Fr("Emit", NoTask, Top(th)[3], 0, 0), Top(th)>>)
  /\ UNCHANGED <<offBus, tasks, tokenState, busState, history>>

\* The user's handler subscribes another handler through the scope before it
\* returns.
HandlerScopeSubscribes(th, h) ==
  /\ At(th, "user_code")
  /\ Top(th)[5] # 0
  /\ scope.life = "alive"
  /\ h = NextFresh(Handlers)
  /\ Continue(th, <<Fr("Subscribe", h, Top(th)[3], 0, 0),
                    Fr("handles_push", h, Top(th)[3], 0, 0), Top(th)>>)
  /\ seen' = [seen EXCEPT !.through = @ \cup {h},
                          !.within = Put(@, h, Top(th)[5])]
  /\ UNCHANGED <<offBus, tasks, calls, tokenState, bus, scope, history>>

\* th runs H1, the handler that calls back into the bus: in a run it subscribes
\* one handler and unsubscribes one; made are the calls of that kind so far.
CallsBack(th, made) ==
  /\ Busy(th) /\ Tk(th) = "H1"
  /\ made = {}

\* Callers emit E side by side; H1 subscribes, on the bus and through the
\* scope, unsubscribes and emits, the other handlers return.
ReentrantNext ==
  \/ \E th \in Threads : SubscribeStep(th)
  \/ \E th \in Threads : UnsubscribeStep(th)
  \/ \E th \in Threads : EmitStep(th)
  \/ \E th \in Threads : ScopePush(th)
  \/ \E th \in Threads, h \in Handlers :
       CallsBack(th, DOMAIN seen.within) /\ HandlerSubscribes(th, h)
  \/ \E th \in Threads, h \in Handlers :
       CallsBack(th, DOMAIN seen.within) /\ HandlerScopeSubscribes(th, h)
  \/ \E th \in Threads, c \in Closures :
       CallsBack(th, seen.unsubscribing) /\ HandlerUnsubscribes(th, c)
  \/ \E th \in Threads : Busy(th) /\ Tk(th) = "H1" /\ HandlerEmits(th)
  \/ \E u \in Users : UserEmit(u, "E")

\* H1 is subscribed to E when the callers begin.
ReentrantInit ==
  InitBus(<<>>, {}, [t \in AllTasks |-> Work], <<<<"H1", "E", "bus">>>>)

ReentrantSpec == ReentrantInit /\ [][ReentrantNext]_vars

\* th can take a step of the call it is in.
CanStep(th) ==
  ENABLED (\/ SubscribeStep(th) \/ UnsubscribeStep(th) \/ EmitStep(th)
           \/ ScopePush(th))

\* C38: a handler running under Emit may call Subscribe, Unsubscribe or Emit on
\* the same bus, directly or through the scope, without deadlock.  No thread
\* holds the mutex of the bus when it calls a handler, while the handler's own
\* code runs or when Emit returns; whoever holds the mutex can take its next
\* step; and every thread inside a call can take a step, or waits for a mutex
\* whose holder can.
ReentrantCallsNeverDeadlock ==
  /\ \A th \in Threads :
       bus.handlers_mutex_ = th =>
         /\ Top(th)[1] \notin {"handler", "user_code", "Emit_return"}
         /\ CanStep(th)
  /\ \A th \in Threads :
       Busy(th) => \/ CanStep(th)
                   \/ bus.handlers_mutex_ \in Threads \ {th}
                   \/ scope.handles_mutex_ \in Threads \ {th}

\* A handler running under an Emit has subscribed a handler and unsubscribed
\* one, both calls having returned, and has emitted; the Emit it made has
\* invoked its handlers and is about to return to the handler.
HandlerCalledBack ==
  \E th \in Threads :
    /\ At(th, "Emit_return")
    /\ \E f \in FramesOf(th) : f[1] = "user_code" /\ f[5] # Top(th)[5]
    /\ seen.emits[Top(th)[5]].entered # <<>>
    /\ \E h \in DOMAIN seen.within : h \in InRegistry
    /\ seen.unsubscribed # {}

====
